---- MODULE Spec2Model ----
(***************************************************************************)
(* SpotMan core (spotman_core.py): the name -> instance-id resolver of     *)
(* AWSInstanceManager and the lifecycle operations built on it.            *)
(*                                                                         *)
(* The account's instances (ec2) are the provider's state; a manager       *)
(* object holds a home region (self.region) and a client handle bound to   *)
(* a region (self.ec2_client).  Every remote call can end in one of        *)
(* Outcomes: it returns, it raises a botocore ClientError, or it raises a  *)
(* connectivity/credential error (NoCredentialsError,                      *)
(* EndpointConnectionError, ConnectTimeoutError), which is no ClientError. *)
(* The login configuration files the registrar reads and writes (files)    *)
(* are texts, held line by line.                                           *)
(***************************************************************************)
EXTENDS Integers, Sequences, FiniteSets, TLC

VARIABLES ec2, region, client, pc, out, files

vars == <<ec2, region, client, pc, out, files>>

\* Largest number of instances the account holds.
MaxInst == 2

\* regions.yaml: the keys of regions_config['regions'], in file order.
RegionDirectory == <<"us-east-1", "us-west-2", "eu-west-1">>

RegionSet == {RegionDirectory[k] : k \in DOMAIN RegionDirectory}

StateList == <<"pending", "running", "stopping", "stopped", "terminated">>

States == {StateList[k] : k \in DOMAIN StateList}

\* The instance-state-name filter of the two name lookups.
NonTerminated == {"pending", "running", "stopping", "stopped"}

\* Display names (the Name tag).  "i-db" has the id prefix but is shorter
\* than an id; "web-server-1" is long enough but lacks the prefix.
NameList == <<"i-db", "web-server-1">>

Names == {NameList[k] : k \in DOMAIN NameList}

Digits == <<"1", "2", "3", "4", "5", "6", "7", "8", "9">>

\* Provider-assigned ids: "i-" and eight characters, ten in all.
InstanceId(k) == "i-0000000" \o Digits[k]

InstanceIds == {InstanceId(k) : k \in 1..MaxInst}

Identifiers == Names \cup InstanceIds

None == "None"

Outcomes == {"ok", "ClientError", "ConnError"}

\* The manager objects at work: the operator's, and a second creator's.
Operator == "operator"

Creator == "creator"

Operators == {Operator, Creator}

Index(seq, x) == CHOOSE k \in DOMAIN seq : seq[k] = x

-----------------------------------------------------------------------------
(* Instance Resolver *)

IsInstanceIdLonger(identifier) ==
    Len(identifier) > 10 /\ SubSeq(identifier, 1, 2) = "i-"

\* identifier.startswith('i-') and len(identifier) >= 10
IsInstanceId(identifier) ==
    Len(identifier) >= 10 /\ SubSeq(identifier, 1, 2) = "i-"

MatchesAnyState(world, r, identifier, include_terminated) ==
    {i \in world : i.region = r /\ i.name = identifier}

MatchesLiveOnly(world, r, identifier, include_terminated) ==
    {i \in world : /\ i.region = r
                   /\ i.name = identifier
                   /\ i.state \in NonTerminated}

MatchesAnyName(world, r, identifier, include_terminated) ==
    {i \in world : /\ i.region = r
                   /\ include_terminated \/ i.state \in NonTerminated}

\* What describe_instances returns in region r for the filters tag:Name =
\* identifier and, unless include_terminated, instance-state-name in
\* NonTerminated.
Matches(world, r, identifier, include_terminated) ==
    {i \in world : /\ i.region = r
                   /\ i.name = identifier
                   /\ include_terminated \/ i.state \in NonTerminated}

ResolveInRegionPropagating(world, r, identifier, include_terminated, o) ==
    IF o = "ok"
    THEN [raised |-> FALSE,
          instances |-> Matches(world, r, identifier, include_terminated)]
    ELSE [raised |-> TRUE, instances |-> {}]

\* _resolve_instance_in_region with the lookup ending in outcome o: a
\* ClientError gives the empty list, any other exception leaves the method.
ResolveInRegion(world, r, identifier, include_terminated, o) ==
    IF o = "ok"
    THEN [raised |-> FALSE,
          instances |-> Matches(world, r, identifier, include_terminated)]
    ELSE IF o = "ClientError"
    THEN [raised |-> FALSE, instances |-> {}]
    ELSE [raised |-> TRUE, instances |-> {}]

\* The lines printed for an ambiguous name: id, state and region.
Report(instances, r) == {<<i.id, i.state, r>> : i \in instances}

\* other_regions: the directory's regions in order, the home region left out
OtherRegions(home) == SelectSeq(RegionDirectory, LAMBDA r : r # home)

Result(ret, raised, reg, cli, queries, reported) ==
    [ret |-> ret, raised |-> raised, region |-> reg, client |-> cli,
     queries |-> queries, reported |-> reported]

RECURSIVE SearchOtherRegionsNoStop(_, _, _, _, _, _, _)
SearchOtherRegionsNoStop(world, home, cli, others, identifier, include_terminated, queries) ==
    IF others = <<>>
    THEN {Result(None, FALSE, home, cli, queries, {})}
    ELSE UNION {
        LET r == Head(others)
            res == ResolveInRegion(world, r, identifier, include_terminated, o)
            q == Append(queries, [region |-> r, outcome |-> o])
        IN  IF Cardinality(res.instances) = 1 /\ ~res.raised
            THEN {Result((CHOOSE i \in res.instances : TRUE).id, FALSE,
                         r, r, q, {})}
            ELSE SearchOtherRegionsNoStop(world, home, cli, Tail(others),
                                          identifier, include_terminated, q)
        : o \in Outcomes}

RECURSIVE SearchOtherRegionsNoSwitch(_, _, _, _, _, _, _)
SearchOtherRegionsNoSwitch(world, home, cli, others, identifier, include_terminated, queries) ==
    IF others = <<>>
    THEN {Result(None, FALSE, home, cli, queries, {})}
    ELSE UNION {
        LET r == Head(others)
            res == ResolveInRegion(world, r, identifier, include_terminated, o)
            q == Append(queries, [region |-> r, outcome |-> o])
        IN  IF res.raised \/ res.instances = {}
            THEN SearchOtherRegionsNoSwitch(world, home, cli, Tail(others),
                                            identifier, include_terminated, q)
            ELSE IF Cardinality(res.instances) = 1
            THEN {Result((CHOOSE i \in res.instances : TRUE).id, FALSE,
                         home, cli, q, {})}
            ELSE {Result(None, FALSE, home, cli, q, Report(res.instances, r))}
        : o \in Outcomes}

\* The loop over other_regions.  Each region is searched through a manager
\* of its own; "except Exception: continue" skips a region whose lookup
\* raised.  A single match switches this manager to the region.
RECURSIVE SearchOtherRegionsMovingOnMany(_, _, _, _, _, _, _)
SearchOtherRegionsMovingOnMany(world, home, cli, others, identifier, include_terminated, queries) ==
    IF others = <<>>
    THEN {Result(None, FALSE, home, cli, queries, {})}
    ELSE UNION {
        LET r == Head(others)
            res == ResolveInRegion(world, r, identifier, include_terminated, o)
            q == Append(queries, [region |-> r, outcome |-> o])
        IN  IF res.raised \/ res.instances = {}
            THEN SearchOtherRegionsMovingOnMany(world, home, cli,
                                                Tail(others), identifier,
                                                include_terminated, q)
            ELSE IF Cardinality(res.instances) = 1
            THEN {Result((CHOOSE i \in res.instances : TRUE).id, FALSE,
                         r, r, q, {})}
            ELSE {Result(None, FALSE, r, r, q, Report(res.instances, r))}
        : o \in Outcomes}

RECURSIVE SearchOtherRegionsKeepingClient(_, _, _, _, _, _, _)
SearchOtherRegionsKeepingClient(world, home, cli, others, identifier, include_terminated, queries) ==
    IF others = <<>>
    THEN {Result(None, FALSE, home, cli, queries, {})}
    ELSE UNION {
        LET r == Head(others)
            res == ResolveInRegion(world, r, identifier, include_terminated, o)
            q == Append(queries, [region |-> r, outcome |-> o])
        IN  IF res.raised \/ res.instances = {}
            THEN SearchOtherRegionsKeepingClient(world, home, cli,
                                                 Tail(others), identifier,
                                                 include_terminated, q)
            ELSE IF Cardinality(res.instances) = 1
            THEN {Result((CHOOSE i \in res.instances : TRUE).id, FALSE,
                         r, cli, q, {})}
            ELSE {Result(None, FALSE, home, cli, q, Report(res.instances, r))}
        : o \in Outcomes}

RECURSIVE SearchOtherRegions(_, _, _, _, _, _, _)
SearchOtherRegions(world, home, cli, others, identifier, include_terminated, queries) ==
    IF others = <<>>
    THEN {Result(None, FALSE, home, cli, queries, {})}
    ELSE UNION {
        LET r == Head(others)
            res == ResolveInRegion(world, r, identifier, include_terminated, o)
            q == Append(queries, [region |-> r, outcome |-> o])
        IN  IF res.raised \/ res.instances = {}
            THEN SearchOtherRegions(world, home, cli, Tail(others),
                                    identifier, include_terminated, q)
            ELSE IF Cardinality(res.instances) = 1
            THEN {Result((CHOOSE i \in res.instances : TRUE).id, FALSE,
                         r, r, q, {})}
            ELSE {Result(None, FALSE, home, cli, q, Report(res.instances, r))}
        : o \in Outcomes}

ResolveIdentifierFirstOfMany(world, home, cli, identifier, include_terminated) ==
    IF IsInstanceId(identifier)
    THEN {Result(identifier, FALSE, home, cli, <<>>, {})}
    ELSE UNION {
        LET res == ResolveInRegion(world, cli, identifier,
                                   include_terminated, o)
            q == <<[region |-> cli, outcome |-> o]>>
        IN  IF res.raised
            THEN {Result(None, TRUE, home, cli, q, {})}
            ELSE IF res.instances # {}
            THEN {Result((CHOOSE i \in res.instances : TRUE).id, FALSE,
                         home, cli, q, {})}
            ELSE SearchOtherRegions(world, home, cli, OtherRegions(home),
                                    identifier, include_terminated, q)
        : o \in Outcomes}

\* _resolve_instance_identifier: every way the call can end, one per
\* combination of outcomes of the lookups it makes.  ret is the id returned
\* (None: no identity), raised tells that an exception left the method,
\* region and client are self.region and the region of self.ec2_client
\* afterwards, queries lists the lookups in the order issued, reported the
\* candidates printed.
ResolveIdentifier(world, home, cli, identifier, include_terminated) ==
    IF IsInstanceId(identifier)
    THEN {Result(identifier, FALSE, home, cli, <<>>, {})}
    ELSE UNION {
        LET res == ResolveInRegion(world, cli, identifier,
                                   include_terminated, o)
            q == <<[region |-> cli, outcome |-> o]>>
        IN  IF res.raised
            THEN {Result(None, TRUE, home, cli, q, {})}
            ELSE IF res.instances # {}
            THEN IF Cardinality(res.instances) = 1
                 THEN {Result((CHOOSE i \in res.instances : TRUE).id, FALSE,
                              home, cli, q, {})}
                 ELSE {Result(None, FALSE, home, cli, q,
                              Report(res.instances, home))}
            ELSE SearchOtherRegions(world, home, cli, OtherRegions(home),
                                    identifier, include_terminated, q)
        : o \in Outcomes}

-----------------------------------------------------------------------------
(* Reachability Registrar: the login configuration files and the managed
   record file, read and written as text *)

\* A file: absent, or a text held as the sequence text.split('\n') gives.
\* Writing text a + "\n" + text b gives the lines of a followed by those of
\* b; the empty text is the one empty line.
Absent == [exists |-> FALSE, lines |-> <<>>]

File(lines) == [exists |-> TRUE, lines |-> lines]

NoFiles == [main |-> Absent, managed |-> Absent]

\* _get_spotman_ssh_config_path, with the home directory expanded.
SpotmanConfigPath == "/home/user/.ssh/spotman_config"

\* str.startswith
StartsWith(line, prefix) ==
    Len(line) >= Len(prefix) /\ SubSeq(line, 1, Len(prefix)) = prefix

\* "part in text"
Contains(text, part) ==
    \E i \in 0..(Len(text) - Len(part)) :
        SubSeq(text, i + 1, i + Len(part)) = part

\* Whether files can be written in this call (a read-only or full disk
\* raises OSError on open(..., 'w')).
IoOutcomes == {"ok", "OSError"}

IncludeLine == "Include " \o SpotmanConfigPath

ManagedHeader == <<"# SpotMan managed SSH configurations", "", "">>

EnsureSshIncludeSetupAlwaysAdding(fs, io) ==
    LET creates == ~fs.managed.exists
        fs1 == IF creates THEN [fs EXCEPT !.managed = File(ManagedHeader)]
               ELSE fs
        existing_content == IF fs.main.exists THEN fs.main.lines ELSE <<"">>
    IN  IF creates /\ io # "ok"
        THEN [raised |-> TRUE, ret |-> FALSE, files |-> fs]
        ELSE IF io # "ok"
        THEN [raised |-> FALSE, ret |-> FALSE, files |-> fs1]
        ELSE [raised |-> FALSE, ret |-> TRUE,
              files |-> [fs1 EXCEPT !.main =
                            File(<<IncludeLine, "">> \o existing_content)]]

\* _ensure_ssh_include_setup: the managed file is created if it is absent
\* (an error of that write leaves the method); the main file is left alone
\* when its text contains the include line, otherwise the include line and
\* an empty line are written in front of its text (an error of that write is
\* caught and answered with False).
EnsureSshIncludeSetup(fs, io) ==
    LET creates == ~fs.managed.exists
        fs1 == IF creates THEN [fs EXCEPT !.managed = File(ManagedHeader)]
               ELSE fs
        included == /\ fs.main.exists
                    /\ \E k \in DOMAIN fs.main.lines :
                            Contains(fs.main.lines[k], IncludeLine)
        existing_content == IF fs.main.exists THEN fs.main.lines ELSE <<"">>
    IN  IF creates /\ io # "ok"
        THEN [raised |-> TRUE, ret |-> FALSE, files |-> fs]
        ELSE IF included
        THEN [raised |-> FALSE, ret |-> TRUE, files |-> fs1]
        ELSE IF io # "ok"
        THEN [raised |-> FALSE, ret |-> FALSE, files |-> fs1]
        ELSE [raised |-> FALSE, ret |-> TRUE,
              files |-> [fs1 EXCEPT !.main =
                            File(<<IncludeLine, "">> \o existing_content)]]

\* What the provider, the region directory and the profile give for an
\* instance when the record is built: the public address (None if it has
\* none), the login user, the key file of the instance's key (None if the
\* directory has none) and the profile's port forwards (a port of 0 stands
\* for a missing one).
Forward(local_port, remote_host, remote_port) ==
    [local_port |-> local_port, remote_host |-> remote_host,
     remote_port |-> remote_port]

DetailList ==
    <<[public_ip |-> "54.0.0.1", ssh_user |-> "ubuntu",
       identity_file |-> "~/.ssh/a.pem",
       port_forwards |-> <<Forward(8080, "localhost", 80),
                           Forward(0, "localhost", 22)>>],
      [public_ip |-> "54.0.0.2", ssh_user |-> "ec2-user",
       identity_file |-> None, port_forwards |-> <<>>],
      [public_ip |-> None, ssh_user |-> "ubuntu",
       identity_file |-> None, port_forwards |-> <<>>]>>

Details == {DetailList[k] : k \in DOMAIN DetailList}

RECURSIVE ForwardLines(_)
ForwardLines(port_forwards) ==
    IF port_forwards = <<>> THEN <<>>
    ELSE LET forward == Head(port_forwards)
         IN  (IF forward.local_port # 0 /\ forward.remote_port # 0
              THEN <<"    LocalForward " \o ToString(forward.local_port)
                        \o " " \o forward.remote_host \o ":"
                        \o ToString(forward.remote_port)>>
              ELSE <<>>)
             \o ForwardLines(Tail(port_forwards))

\* ssh_entry_lines
SshEntryLines(instance_id, host_name, d) ==
    <<"# SpotMan managed entry for " \o host_name \o " (" \o instance_id
        \o ")",
      "Host " \o host_name,
      "    HostName " \o d.public_ip,
      "    User " \o d.ssh_user>>
    \o (IF d.identity_file # None
        THEN <<"    IdentityFile " \o d.identity_file>> ELSE <<>>)
    \o <<"    StrictHostKeyChecking no">>
    \o ForwardLines(d.port_forwards)

RECURSIVE FilteredLinesKeepingAll(_, _, _, _)
FilteredLinesKeepingAll(lines, k, host_name, skip) ==
    IF k > Len(lines) THEN <<>>
    ELSE <<lines[k]>> \o FilteredLinesKeepingAll(lines, k + 1, host_name, skip)

\* filtered_lines: the loop over the lines of the existing text, from line
\* k on, with skip_until_next_host as it stands before line k.
RECURSIVE FilteredLines(_, _, _, _)
FilteredLines(lines, k, host_name, skip) ==
    IF k > Len(lines) THEN <<>>
    ELSE LET line == lines[k]
         IN  IF StartsWith(line, "Host ")
             THEN IF line = "Host " \o host_name
                  THEN FilteredLines(lines, k + 1, host_name, TRUE)
                  ELSE <<line>> \o FilteredLines(lines, k + 1, host_name, FALSE)
             ELSE IF /\ StartsWith(line, "# SpotMan managed entry for")
                     /\ Contains(line, host_name)
             THEN FilteredLines(lines, k + 1, host_name, TRUE)
             ELSE IF skip
             THEN FilteredLines(lines, k + 1, host_name, skip)
             ELSE <<line>> \o FilteredLines(lines, k + 1, host_name, skip)

\* str.rstrip of one line: trailing blanks go.
RECURSIVE RStripLine(_)
RStripLine(line) ==
    IF Len(line) > 0 /\ SubSeq(line, Len(line), Len(line)) = " "
    THEN RStripLine(SubSeq(line, 1, Len(line) - 1))
    ELSE line

\* '\n'.join(lines).rstrip(), as lines: trailing blank lines go, then the
\* trailing blanks of the last line left.
RECURSIVE RStrip(_)
RStrip(lines) ==
    IF Len(lines) = 0 THEN <<"">>
    ELSE IF RStripLine(lines[Len(lines)]) = ""
    THEN RStrip(SubSeq(lines, 1, Len(lines) - 1))
    ELSE SubSeq(lines, 1, Len(lines) - 1) \o <<RStripLine(lines[Len(lines)])>>

\* updated_config = '\n'.join(filtered_lines).rstrip() + '\n\n' + ssh_entry,
\* ssh_entry being the entry lines joined and ended by a newline.
UpdatedConfig(existing, instance_id, host_name, d) ==
    RStrip(FilteredLines(existing, 1, host_name, FALSE))
    \o <<"">> \o SshEntryLines(instance_id, host_name, d) \o <<"">>

DescribeForSsh(cli, instance_id, o) ==
    [api |-> "describe_instances", region |-> cli, target |-> instance_id,
     outcome |-> o]

\* _add_ssh_config_entry: the include setup, the describe call (outcome o,
\* answer d), then the record replaced in the managed file.  A ClientError
\* of the describe call, an instance without public address and an error of
\* the file update are answered with False; an error of the include setup
\* and any other exception of the describe call leave the method.
AddSshConfigEntry(fs, cli, instance_id, host_name, d, o, io) ==
    LET setup == EnsureSshIncludeSetup(fs, io)
        fs1 == setup.files
        calls == <<DescribeForSsh(cli, instance_id, o)>>
        existing_config == IF fs1.managed.exists THEN fs1.managed.lines
                           ELSE <<"">>
    IN  IF setup.raised
        THEN [raised |-> TRUE, ret |-> FALSE, files |-> fs1, calls |-> <<>>]
        ELSE IF o = "ConnError"
        THEN [raised |-> TRUE, ret |-> FALSE, files |-> fs1, calls |-> calls]
        ELSE IF o = "ClientError" \/ d.public_ip = None \/ io # "ok"
        THEN [raised |-> FALSE, ret |-> FALSE, files |-> fs1, calls |-> calls]
        ELSE [raised |-> FALSE, ret |-> TRUE,
              files |-> [fs1 EXCEPT !.managed =
                            File(UpdatedConfig(existing_config, instance_id,
                                               host_name, d))],
              calls |-> calls]

-----------------------------------------------------------------------------
(* State *)

Idle == [op |-> "idle"]

NoOut == [op |-> "none"]

Instance(k, r, n, s, spot, hib) ==
    [id |-> InstanceId(k), region |-> r, name |-> n, state |-> s,
     spot |-> spot, hib |-> hib]

\* The account with instances that other tools and earlier runs left in
\* it: any regions, names and states; ids in launch order.
Kinds == RegionSet \X Names \X States

Rank(kind) ==
    ((Index(RegionDirectory, kind[1]) - 1) * Len(NameList)
        + (Index(NameList, kind[2]) - 1)) * Len(StateList)
    + Index(StateList, kind[3])

Accounts ==
    UNION {
        {{Instance(k, f[k][1], f[k][2], f[k][3], FALSE, FALSE) : k \in 1..n}
            : f \in {g \in [1..n -> Kinds] :
                        \A j \in 1..n, k \in 1..n :
                            j < k => Rank(g[j]) <= Rank(g[k])}}
        : n \in 0..MaxInst}

\* __init__: the client handle is created for self.region.
InitManagers ==
    /\ region \in [Operators -> RegionSet]
    /\ client = region
    /\ pc = [m \in Operators |-> Idle]
    /\ out = NoOut

-----------------------------------------------------------------------------
(* The resolver on its own, over every account within the bound *)

Resolver == Operator

InitResolve ==
    /\ ec2 \in Accounts
    /\ InitManagers
    /\ files = NoFiles
    /\ region[Creator] = region[Operator]

\* One call of _resolve_instance_identifier by a caller that holds no record
\* of an earlier call.
Resolve(identifier, include_terminated) ==
    /\ out = NoOut
    /\ \E r \in ResolveIdentifier(ec2, region[Resolver], client[Resolver],
                               identifier, include_terminated) :
        /\ region' = [region EXCEPT ![Resolver] = r.region]
        /\ client' = [client EXCEPT ![Resolver] = r.client]
        /\ out' = [op |-> "resolve", identifier |-> identifier,
                   include_terminated |-> include_terminated,
                   home |-> region[Resolver], client |-> client[Resolver],
                   ret |-> r.ret, raised |-> r.raised,
                   queries |-> r.queries, reported |-> r.reported]
        /\ UNCHANGED <<ec2, pc, files>>

\* The caller is done with the result of the last call.
Return ==
    /\ out # NoOut
    /\ out' = NoOut
    /\ UNCHANGED <<ec2, region, client, pc, files>>

NextResolve ==
    \/ \E identifier \in Identifiers, include_terminated \in BOOLEAN :
            Resolve(identifier, include_terminated)
    \/ Return

SpecResolve == InitResolve /\ [][NextResolve]_vars

-----------------------------------------------------------------------------
(* The provider: what a call made through a client of region cli does *)

\* max_retries of the retry wrapper on the lifecycle operations
MaxRetries == 3

\* Launch templates: market type and hibernation flag are what the
\* lifecycle operations read back from the instance.
OnDemand ==
    [name |-> "ondemand", spot_instance |-> FALSE,
     hibernation_enabled |-> FALSE]

SpotHibernate ==
    [name |-> "spot-hib", spot_instance |-> TRUE,
     hibernation_enabled |-> TRUE]

\* The creations asked for: a display name and the profile to launch it
\* with.
Requests ==
    {[name |-> NameList[1], profile |-> SpotHibernate],
     [name |-> NameList[2], profile |-> OnDemand]}

\* The instance an id names for a client of region cli ({} if none).
Target(world, cli, id) == {i \in world : i.id = id /\ i.region = cli}

\* Whether the provider accepts the call (otherwise it answers with a
\* ClientError such as InvalidInstanceID.NotFound or IncorrectInstanceState).
Accepts(api, world, cli, id) ==
    \E i \in Target(world, cli, id) :
        CASE api = "describe_instances" -> TRUE
          [] api = "cancel_spot_instance_requests" -> TRUE
          [] api = "stop_instances" ->
                i.state \in {"running", "stopping", "stopped"}
          [] api = "stop_instances_hibernate" ->
                i.state \in {"running", "stopping", "stopped"} /\ i.hib
          [] api = "start_instances" ->
                i.state \in {"pending", "running", "stopped"}
          [] api = "terminate_instances" -> TRUE

SetState(world, cli, id, from, to) ==
    {IF i.id = id /\ i.region = cli /\ i.state \in from
     THEN [i EXCEPT !.state = to] ELSE i : i \in world}

Effect(api, world, cli, id) ==
    CASE api \in {"stop_instances", "stop_instances_hibernate"} ->
            SetState(world, cli, id, {"running"}, "stopping")
      [] api = "start_instances" ->
            SetState(world, cli, id, {"stopped"}, "pending")
      [] api = "terminate_instances" ->
            SetState(world, cli, id, States, "terminated")
      [] OTHER -> world

\* One remote call on an instance id, with o what the environment does to
\* it: the outcome seen by the caller and the account afterwards.
RemoteCall(api, world, cli, id, o) ==
    LET outcome == IF o = "ok" /\ ~Accepts(api, world, cli, id)
                   THEN "ClientError" ELSE o
    IN  [outcome |-> outcome,
         world |-> IF outcome = "ok" THEN Effect(api, world, cli, id)
                   ELSE world,
         entry |-> [api |-> api, region |-> cli, target |-> id,
                    outcome |-> outcome]]

\* run_instances: the smallest unused id, state pending, the Name tag and
\* the profile's market and hibernation options; the tags of the request's
\* TagSpecifications when the request is modelled with them.
Launch(world, cli, name, profile) ==
    LET k == CHOOSE j \in 1..(Cardinality(world) + 1) :
                 /\ \A i \in world : i.id # InstanceId(j)
                 /\ \A h \in 1..(j - 1) : \E i \in world : i.id = InstanceId(h)
        new == Instance(k, cli, name, "pending", profile.spot_instance,
                        profile.hibernation_enabled)
    IN  IF "tags" \in DOMAIN profile
        THEN new @@ [tags |-> profile.tags]
        ELSE new

-----------------------------------------------------------------------------
(* Lifecycle Orchestrator: one pass through the body of each operation *)

OpResult(ret, raised, reg, cli, calls, world) ==
    [ret |-> ret, raised |-> raised, region |-> reg, client |-> cli,
     calls |-> calls, world |-> world]

\* The name lookups of a resolve, as entries of the call log.
Lookups(identifier, queries) ==
    [k \in DOMAIN queries |->
        [api |-> "describe_instances_by_name", region |-> queries[k].region,
         target |-> identifier]]

\* The end of a body that issues its last call: True when the call is
\* accepted, False on ClientError (caught by the body), and any other
\* exception leaves the body.
Finish(c, reg, cli, calls) ==
    LET log == Append(calls, c.entry)
    IN  IF c.outcome = "ok"
        THEN OpResult("True", FALSE, reg, cli, log, c.world)
        ELSE IF c.outcome = "ClientError"
        THEN OpResult("False", FALSE, reg, cli, log, c.world)
        ELSE OpResult(None, TRUE, reg, cli, log, c.world)

TransitionBodyCheckingState(api, world, home, cli, identifier) ==
    UNION {
        LET log == Lookups(identifier, r.queries)
        IN  IF r.raised
            THEN {OpResult(None, TRUE, r.region, r.client, log, world)}
            ELSE IF r.ret = None
            THEN {OpResult("False", FALSE, r.region, r.client, log, world)}
            ELSE IF \E i \in Target(world, r.client, r.ret) :
                        i.state = "terminated"
            THEN {OpResult("False", FALSE, r.region, r.client, log, world)}
            ELSE {Finish(RemoteCall(api, world, r.client, r.ret, o),
                         r.region, r.client, log) : o \in Outcomes}
        : r \in ResolveIdentifier(world, home, cli, identifier, FALSE)}

\* stop_instance and start_instance: resolve, then the transition call.
TransitionBody(api, world, home, cli, identifier) ==
    UNION {
        LET log == Lookups(identifier, r.queries)
        IN  IF r.raised
            THEN {OpResult(None, TRUE, r.region, r.client, log, world)}
            ELSE IF r.ret = None
            THEN {OpResult("False", FALSE, r.region, r.client, log, world)}
            ELSE {Finish(RemoteCall(api, world, r.client, r.ret, o),
                         r.region, r.client, log) : o \in Outcomes}
        : r \in ResolveIdentifier(world, home, cli, identifier, FALSE)}

TerminateTailCancelFatal(i, world, reg, cli, id, log) ==
    IF i.spot
    THEN UNION {
        LET c == RemoteCall("cancel_spot_instance_requests", world, cli,
                            id, o)
            log2 == Append(log, c.entry)
        IN  IF c.outcome = "ConnError"
            THEN {OpResult(None, TRUE, reg, cli, log2, world)}
            ELSE IF c.outcome = "ClientError"
            THEN {OpResult("False", FALSE, reg, cli, log2, world)}
            ELSE {Finish(RemoteCall("terminate_instances", world, cli, id, o2),
                         reg, cli, log2) : o2 \in Outcomes}
        : o \in Outcomes}
    ELSE {Finish(RemoteCall("terminate_instances", world, cli, id, o2),
                 reg, cli, log) : o2 \in Outcomes}

\* What follows a successful describe-by-id in terminate_instance: the
\* spot request, if the instance has one, is cancelled first; a ClientError
\* of the cancel call is a warning, any other exception leaves the body.
TerminateTail(i, world, reg, cli, id, log) ==
    IF i.spot
    THEN UNION {
        LET c == RemoteCall("cancel_spot_instance_requests", world, cli,
                            id, o)
            log2 == Append(log, c.entry)
        IN  IF c.outcome = "ConnError"
            THEN {OpResult(None, TRUE, reg, cli, log2, world)}
            ELSE {Finish(RemoteCall("terminate_instances", world, cli, id, o2),
                         reg, cli, log2) : o2 \in Outcomes}
        : o \in Outcomes}
    ELSE {Finish(RemoteCall("terminate_instances", world, cli, id, o2),
                 reg, cli, log) : o2 \in Outcomes}

HibernateTailFlagOnly(i, world, reg, cli, id, log) ==
    IF ~i.hib
    THEN {OpResult("False", FALSE, reg, cli, log, world)}
    ELSE {Finish(RemoteCall("stop_instances_hibernate", world, cli, id, o2),
                 reg, cli, log) : o2 \in Outcomes}

\* hibernate_instance after the describe: the hibernation flag, then the
\* state, then stop with Hibernate=True.
HibernateTail(i, world, reg, cli, id, log) ==
    IF ~i.hib \/ i.state # "running"
    THEN {OpResult("False", FALSE, reg, cli, log, world)}
    ELSE {Finish(RemoteCall("stop_instances_hibernate", world, cli, id, o2),
                 reg, cli, log) : o2 \in Outcomes}

ResumeTailStartsRunning(i, world, reg, cli, id, log) ==
    IF i.state \notin {"running", "stopped"}
    THEN {OpResult("False", FALSE, reg, cli, log, world)}
    ELSE {Finish(RemoteCall("start_instances", world, cli, id, o2),
                 reg, cli, log) : o2 \in Outcomes}

ResumeTailStartsPending(i, world, reg, cli, id, log) ==
    IF i.state = "running"
    THEN {OpResult("True", FALSE, reg, cli, log, world)}
    ELSE IF i.state \notin {"stopped", "pending"}
    THEN {OpResult("False", FALSE, reg, cli, log, world)}
    ELSE {Finish(RemoteCall("start_instances", world, cli, id, o2),
                 reg, cli, log) : o2 \in Outcomes}

\* resume_hibernated_instance after the describe.
ResumeTail(i, world, reg, cli, id, log) ==
    IF i.state = "running"
    THEN {OpResult("True", FALSE, reg, cli, log, world)}
    ELSE IF i.state # "stopped"
    THEN {OpResult("False", FALSE, reg, cli, log, world)}
    ELSE {Finish(RemoteCall("start_instances", world, cli, id, o2),
                 reg, cli, log) : o2 \in Outcomes}

AfterDescribe(op, i, world, reg, cli, id, log) ==
    CASE op = "terminate" -> TerminateTail(i, world, reg, cli, id, log)
      [] op = "hibernate" -> HibernateTail(i, world, reg, cli, id, log)
      [] op = "resume" -> ResumeTail(i, world, reg, cli, id, log)

\* terminate_instance, hibernate_instance and resume_hibernated_instance:
\* resolve, describe the instance by id, then the operation's own tail.
DescribeBodyUnguarded(op, world, home, cli, identifier) ==
    UNION {
        LET log == Lookups(identifier, r.queries)
        IN  IF r.raised
            THEN {OpResult(None, TRUE, r.region, r.client, log, world)}
            ELSE UNION {
                LET d == RemoteCall("describe_instances", world, r.client,
                                    r.ret, o)
                    log2 == Append(log, d.entry)
                IN  IF d.outcome = "ClientError"
                    THEN {OpResult("False", FALSE, r.region, r.client, log2,
                                   world)}
                    ELSE IF d.outcome = "ConnError"
                    THEN {OpResult(None, TRUE, r.region, r.client, log2,
                                   world)}
                    ELSE UNION {AfterDescribe(op, i, world, r.region,
                                              r.client, r.ret, log2)
                                : i \in Target(world, r.client, r.ret)}
                : o \in Outcomes}
        : r \in ResolveIdentifier(world, home, cli, identifier, FALSE)}

DescribeBody(op, world, home, cli, identifier) ==
    UNION {
        LET log == Lookups(identifier, r.queries)
        IN  IF r.raised
            THEN {OpResult(None, TRUE, r.region, r.client, log, world)}
            ELSE IF r.ret = None
            THEN {OpResult("False", FALSE, r.region, r.client, log, world)}
            ELSE UNION {
                LET d == RemoteCall("describe_instances", world, r.client,
                                    r.ret, o)
                    log2 == Append(log, d.entry)
                IN  IF d.outcome = "ClientError"
                    THEN {OpResult("False", FALSE, r.region, r.client, log2,
                                   world)}
                    ELSE IF d.outcome = "ConnError"
                    THEN {OpResult(None, TRUE, r.region, r.client, log2,
                                   world)}
                    ELSE UNION {AfterDescribe(op, i, world, r.region,
                                              r.client, r.ret, log2)
                                : i \in Target(world, r.client, r.ret)}
                : o \in Outcomes}
        : r \in ResolveIdentifier(world, home, cli, identifier, FALSE)}

Body(op, world, home, cli, identifier) ==
    CASE op = "stop" ->
            TransitionBody("stop_instances", world, home, cli, identifier)
      [] op = "start" ->
            TransitionBody("start_instances", world, home, cli, identifier)
      [] OTHER -> DescribeBody(op, world, home, cli, identifier)

\* _instance_name_exists with the lookup ending in outcome o: a ClientError
\* is answered with False, any other exception leaves the method.
InstanceNameExistsFailingClosed(world, cli, name, o) ==
    IF o = "ok"
    THEN [raised |-> FALSE, exists |-> Matches(world, cli, name, FALSE) # {}]
    ELSE IF o = "ClientError"
    THEN [raised |-> FALSE, exists |-> TRUE]
    ELSE [raised |-> TRUE, exists |-> FALSE]

InstanceNameExists(world, cli, name, o) ==
    IF o = "ok"
    THEN [raised |-> FALSE, exists |-> Matches(world, cli, name, FALSE) # {}]
    ELSE IF o = "ClientError"
    THEN [raised |-> FALSE, exists |-> FALSE]
    ELSE [raised |-> TRUE, exists |-> FALSE]

-----------------------------------------------------------------------------
(* The operators at work on one account *)

\* An empty account; the managers are created for the same home region.
Init ==
    /\ ec2 = {}
    /\ InitManagers
    /\ files = NoFiles
    /\ \A m \in Operators : region[m] = RegionDirectory[2]

\* How many entries of a call log are calls of api.
Count(calls, api) == Cardinality({k \in DOMAIN calls : calls[k].api = api})

\* The call that carries out the operation.
MainCall(op) ==
    CASE op = "stop" -> "stop_instances"
      [] op = "start" -> "start_instances"
      [] op = "terminate" -> "terminate_instances"
      [] op = "hibernate" -> "stop_instances_hibernate"
      [] op = "resume" -> "start_instances"

\* One pass of the retry wrapper's loop around a lifecycle operation of
\* operator m: the body runs once; an exception that leaves it (a
\* connectivity/credential error) is retried after a sleep while attempts
\* remain and is propagated at attempt max_retries.  sent counts the main
\* calls the invocation has issued, over all its passes.
Operate(m, op, identifier) ==
    /\ out = NoOut
    /\ \/ pc[m] = Idle
       \/ pc[m].op = op /\ pc[m].identifier = identifier
    /\ LET attempt == IF pc[m] = Idle THEN 0 ELSE pc[m].attempt
           before == IF pc[m] = Idle THEN 0 ELSE pc[m].sent
       IN  \E r \in Body(op, ec2, region[m], client[m], identifier) :
            LET retry == r.raised /\ attempt < MaxRetries
                sent == before + Count(r.calls, MainCall(op))
            IN  /\ ec2' = r.world
                /\ region' = [region EXCEPT ![m] = r.region]
                /\ client' = [client EXCEPT ![m] = r.client]
                /\ pc' = [pc EXCEPT ![m] =
                            IF retry
                            THEN [op |-> op, identifier |-> identifier,
                                  attempt |-> attempt + 1, sent |-> sent]
                            ELSE Idle]
                /\ out' = [op |-> op, m |-> m, identifier |-> identifier,
                           attempt |-> attempt, home |-> region[m],
                           ret |-> r.ret, raised |-> r.raised,
                           retry |-> retry, calls |-> r.calls,
                           sent |-> sent]
    /\ UNCHANGED files

Stop(m, identifier) == Operate(m, "stop", identifier)

Start(m, identifier) == Operate(m, "start", identifier)

Terminate(m, identifier) == Operate(m, "terminate", identifier)

Hibernate(m, identifier) == Operate(m, "hibernate", identifier)

Resume(m, identifier) == Operate(m, "resume", identifier)

\* Whether what lies between the duplicate-name check and the launch call
\* (profile, image, subnet and key resolution) lets the create go on.
Preparations == {"ok", "rejected"}

NameLookup(cli, name, o) ==
    [api |-> "describe_instances_by_name", region |-> cli, target |-> name,
     outcome |-> o]

\* create_instance up to the launch call: the duplicate-name check, then
\* the preparation of the request.  The call ends here with no identity
\* when the name is taken, when the check or the preparation raises, and in
\* dry-run mode.
CreateCheck(m, name, profile, dry_run) ==
    /\ out = NoOut
    /\ pc[m] = Idle
    /\ Cardinality(ec2)
         + Cardinality({n \in Operators : pc[n].op = "create"}) < MaxInst
    /\ \E o \in Outcomes, prep \in Preparations :
        LET chk == InstanceNameExists(ec2, client[m], name, o)
            calls == <<NameLookup(client[m], name, o)>>
            goes == ~chk.raised /\ ~chk.exists /\ prep = "ok" /\ ~dry_run
        IN  /\ pc' = [pc EXCEPT ![m] =
                        IF goes
                        THEN [op |-> "create", name |-> name,
                              profile |-> profile, calls |-> calls]
                        ELSE Idle]
            /\ out' = IF goes THEN NoOut
                      ELSE [op |-> "create", m |-> m, identifier |-> name,
                            home |-> region[m], ret |-> None,
                            raised |-> FALSE, calls |-> calls]
    /\ UNCHANGED <<ec2, region, client, files>>

\* How the wait for the running state ends: the instance is running, the
\* bound of 20 polls is exceeded, or the waiter fails on a poll.
Waits == {"running", "timeout", "failed"}

WaitRunning(cli, instance_id, w) ==
    [api |-> "wait_instance_running", region |-> cli, target |-> instance_id,
     outcome |-> w]

\* host_name = f"spotman-{instance_name}"
HostName(instance_name) == "spotman-" \o instance_name

\* The instances of the lifecycle runs are launched without a public
\* address, so that their registration sets the files up and writes no
\* record.
PrivateDetails == {DetailList[3]}

LaunchResult(ret, world, fs, calls) ==
    [ret |-> ret, raised |-> FALSE, world |-> world, files |-> fs,
     calls |-> calls]

AfterLaunchRollingBack(world, fs, cli, instance_name, new, log, details) ==
    UNION {
        LET log2 == Append(log, WaitRunning(cli, new.id, w))
        IN  IF w # "running"
            THEN {LaunchResult(None, world,
                               fs, Append(log2,
                                   [api |-> "terminate_instances",
                                    region |-> cli, target |-> new.id,
                                    outcome |-> "ok"]))}
            ELSE {LaunchResult(new.id,
                               world \cup {[new EXCEPT !.state = "running"]},
                               fs, log2)}
        : w \in Waits}

AfterLaunchRegisteringAlways(world, fs, cli, instance_name, new, log, details) ==
    UNION {
        LET log2 == Append(log, WaitRunning(cli, new.id, w))
        IN  {LET a == AddSshConfigEntry(fs, cli, new.id,
                                        HostName(instance_name), d, ro, io)
             IN  LaunchResult(new.id,
                              world \cup {IF w = "running"
                                          THEN [new EXCEPT !.state = "running"]
                                          ELSE new},
                              a.files, log2 \o a.calls)
             : d \in details, ro \in Outcomes, io \in IoOutcomes}
        : w \in Waits}

\* create_instance after run_instances has returned instance new: the wait
\* for the running state and, when it reports the instance running, the
\* registration of host "spotman-<name>".  Whatever the wait and the
\* registration raise is caught and printed as a warning; the id is
\* returned.  details: what the registrar may be given for the instance.
AfterLaunch(world, fs, cli, instance_name, new, log, details) ==
    UNION {
        LET log2 == Append(log, WaitRunning(cli, new.id, w))
        IN  IF w # "running"
            THEN {LaunchResult(new.id, world \cup {new}, fs, log2)}
            ELSE {LET a == AddSshConfigEntry(fs, cli, new.id,
                                             HostName(instance_name), d, ro, io)
                  IN  LaunchResult(new.id,
                                   world \cup {[new EXCEPT !.state = "running"]},
                                   a.files, log2 \o a.calls)
                  : d \in details, ro \in Outcomes, io \in IoOutcomes}
        : w \in Waits}

LaunchAndWaitPropagating(world, fs, cli, instance_name, profile, o, log, details) ==
    LET new == Launch(world, cli, instance_name, profile)
        run == [api |-> "run_instances", region |-> cli,
                target |-> instance_name, outcome |-> o]
    IN  IF o = "ConnError"
        THEN {[LaunchResult(None, world, fs, Append(log, run))
                EXCEPT !.raised = TRUE]}
        ELSE IF o # "ok"
        THEN {LaunchResult(None, world, fs, Append(log, run))}
        ELSE AfterLaunch(world, fs, cli, instance_name, new, Append(log, run),
                         details)

\* create_instance from the launch call on, the call ending in outcome o: a
\* failed launch call is caught and answered with no identity.
LaunchAndWait(world, fs, cli, instance_name, profile, o, log, details) ==
    LET new == Launch(world, cli, instance_name, profile)
        run == [api |-> "run_instances", region |-> cli,
                target |-> instance_name, outcome |-> o]
    IN  IF o # "ok"
        THEN {LaunchResult(None, world, fs, Append(log, run))}
        ELSE AfterLaunch(world, fs, cli, instance_name, new, Append(log, run),
                         details)

\* create_instance from the launch call on, by manager m that has passed the
\* duplicate-name check and built the request.
CreateLaunch(m) ==
    /\ out = NoOut
    /\ pc[m].op = "create"
    /\ \E o \in Outcomes :
        \E r \in LaunchAndWait(ec2, files, client[m], pc[m].name,
                               pc[m].profile, o, pc[m].calls,
                               PrivateDetails) :
            /\ ec2' = r.world
            /\ files' = r.files
            /\ out' = [op |-> "create", m |-> m, identifier |-> pc[m].name,
                       home |-> region[m], ret |-> r.ret,
                       raised |-> r.raised, calls |-> r.calls]
    /\ pc' = [pc EXCEPT ![m] = Idle]
    /\ UNCHANGED <<region, client>>

\* The provider moves an instance on: pending to running, stopping to
\* stopped.
ProviderProgress(id) ==
    /\ \E i \in ec2 :
        /\ i.id = id
        /\ i.state \in {"pending", "stopping"}
        /\ ec2' = (ec2 \ {i}) \cup
                    {[i EXCEPT !.state = IF i.state = "pending"
                                         THEN "running" ELSE "stopped"]}
    /\ UNCHANGED <<region, client, pc, out, files>>

Create(m) ==
    \/ \E req \in Requests, dry_run \in BOOLEAN :
            CreateCheck(m, req.name, req.profile, dry_run)
    \/ CreateLaunch(m)

Step(m) ==
    \/ Create(m)
    \/ \E identifier \in Identifiers : Stop(m, identifier)
    \/ \E identifier \in Identifiers : Start(m, identifier)
    \/ \E identifier \in Identifiers : Terminate(m, identifier)
    \/ \E identifier \in Identifiers : Hibernate(m, identifier)
    \/ \E identifier \in Identifiers : Resume(m, identifier)

\* The operator, issuing one operation after another.
Next ==
    \/ Step(Operator)
    \/ \E id \in InstanceIds : ProviderProgress(id)
    \/ Return

Spec == Init /\ [][Next]_vars

\* The operator in an account that has an instance in a region searched
\* after the home region.
InitRegions ==
    /\ ec2 \in {{Instance(1, RegionDirectory[3], n, "running", FALSE, FALSE)} :
                    n \in Names}
    /\ InitManagers
    /\ files = NoFiles
    /\ \A m \in Operators : region[m] = RegionDirectory[2]

\* The operator issuing one operation after another, each on the account as
\* the operation before left it.
NextRegions ==
    \/ Step(Operator)
    \/ Return

SpecRegions == InitRegions /\ [][NextRegions]_vars

\* Two creators at a time, in the same home region.
NextRace ==
    \/ Create(Operator)
    \/ Create(Creator)
    \/ \E id \in InstanceIds : ProviderProgress(id)
    \/ Return

SpecRace == Init /\ [][NextRace]_vars

-----------------------------------------------------------------------------
(* AWSErrorHandler: the error classification and the retry wrapper around
   an arbitrary wrapped operation *)

\* Largest max_retries a wrapper is configured with.
MaxBudget == 3

RETRYABLE_ERRORS ==
    {"Throttling", "RequestLimitExceeded", "ServiceUnavailable",
     "InternalError", "InternalFailure", "SlowDown"}

PERMANENT_ERRORS ==
    {"InvalidParameterValue", "InvalidInstanceID.NotFound",
     "InvalidInstanceID.Malformed", "UnauthorizedOperation",
     "InvalidUserID.NotFound", "InvalidGroupId.NotFound",
     "InvalidKeyPair.NotFound", "InvalidAMIID.NotFound",
     "InvalidSubnetID.NotFound", "InvalidVpcID.NotFound",
     "InvalidSecurityGroupID.NotFound", "InstanceLimitExceeded",
     "InsufficientInstanceCapacity", "InvalidInstanceType",
     "InvalidAvailabilityZone", "InvalidParameterCombination"}

\* should_retry
ShouldRetry(error_code) == error_code \in RETRYABLE_ERRORS

\* is_permanent_error
IsPermanentError(error_code) == error_code \in PERMANENT_ERRORS

HandleAwsErrorRetriesUnknown(error_code) ==
    IF ShouldRetry(error_code) THEN TRUE
    ELSE IF IsPermanentError(error_code) THEN FALSE
    ELSE TRUE

\* handle_aws_error: whether the operation should be retried.
HandleAwsError(error_code) ==
    IF ShouldRetry(error_code) THEN TRUE
    ELSE IF IsPermanentError(error_code) THEN FALSE
    ELSE FALSE

\* Error codes a wrapped operation is made to fail with: two of the
\* retryable set, two of the permanent set, and two of neither ("Unknown" is
\* what handle_aws_error reads from a response without a code).
ErrorCodes ==
    {"Throttling", "SlowDown", "InvalidInstanceID.NotFound",
     "InstanceLimitExceeded", "IncorrectInstanceState", "Unknown"}

\* The exceptions of the wrapper's second handler.
ConnectivityErrors ==
    {"NoCredentialsError", "EndpointConnectionError", "ConnectTimeoutError"}

Returned == [kind |-> "return", code |-> None]

\* What one invocation of the wrapped operation ends in: it returns, or it
\* raises a ClientError with a code, a connectivity/credential error, or an
\* exception of another class.
Endings ==
    {Returned}
    \cup {[kind |-> "ClientError", code |-> c] : c \in ErrorCodes}
    \cup {[kind |-> k, code |-> None] : k \in ConnectivityErrors}
    \cup {[kind |-> "ValueError", code |-> None]}

Budgets == 0..MaxBudget

\* delay, in seconds: the decorators in the file use 1.0 and 2.0.
Delays == {1, 2}

WaitTimeLinear(delay, attempt) == delay * (attempt + 1)

\* wait_time = delay * (2 ** attempt)
WaitTime(delay, attempt) == delay * (2 ^ attempt)

\* A call of a function decorated with retry_on_aws_error(max_retries,
\* delay) enters the wrapper's loop.
WrapperCall(m, max_retries, delay) ==
    /\ out = NoOut
    /\ pc[m] = Idle
    /\ pc' = [pc EXCEPT ![m] =
                [op |-> "wrapper", max_retries |-> max_retries,
                 delay |-> delay, attempt |-> 0, invoked |-> <<>>,
                 slept |-> <<>>]]
    /\ UNCHANGED <<ec2, region, client, out, files>>

\* Whether the iteration of the loop that saw ending e at this attempt goes
\* on to the next iteration (after a sleep), rather than leaving the wrapper.
GoesOnAlways(e, attempt, max_retries) ==
    e.kind = "ClientError" \/ e.kind \in ConnectivityErrors

GoesOnProviderOnly(e, attempt, max_retries) ==
    e.kind = "ClientError" /\ attempt # max_retries /\ HandleAwsError(e.code)

GoesOn(e, attempt, max_retries) ==
    IF e.kind = "ClientError"
    THEN attempt # max_retries /\ HandleAwsError(e.code)
    ELSE IF e.kind \in ConnectivityErrors
    THEN attempt # max_retries
    ELSE FALSE

\* One iteration of "for attempt in range(max_retries + 1)": the wrapped
\* operation is invoked once; the wrapper returns its value, re-raises its
\* exception, or sleeps and goes on to the next attempt.
WrapperAttempt(m) ==
    /\ out = NoOut
    /\ pc[m].op = "wrapper"
    /\ pc[m].attempt <= pc[m].max_retries
    /\ \E e \in Endings :
        LET w == pc[m]
            invoked == Append(w.invoked, e)
        IN  IF GoesOn(e, w.attempt, w.max_retries)
            THEN /\ pc' = [pc EXCEPT ![m] =
                            [w EXCEPT !.attempt = w.attempt + 1,
                                      !.invoked = invoked,
                                      !.slept = Append(w.slept,
                                          WaitTime(w.delay, w.attempt))]]
                 /\ out' = out
            ELSE /\ pc' = [pc EXCEPT ![m] = Idle]
                 /\ out' = [op |-> "wrapper", m |-> m,
                            max_retries |-> w.max_retries,
                            delay |-> w.delay, invoked |-> invoked,
                            slept |-> w.slept,
                            raised |-> IF e = Returned THEN None ELSE e.kind,
                            code |-> e.code]
    /\ UNCHANGED <<ec2, region, client, files>>

NextRetry ==
    \/ \E max_retries \in Budgets, delay \in Delays :
            WrapperCall(Operator, max_retries, delay)
    \/ WrapperAttempt(Operator)
    \/ Return

SpecRetry == Init /\ [][NextRetry]_vars

-----------------------------------------------------------------------------
(* Spot prices: get_spot_prices under its retry wrapper *)

\* Largest number of rows in a price-history response.
MaxRows == 3

\* Instance types and zones, each list in the order sorted() gives them.
ShapeList == <<"c7a.4xlarge", "c7i.4xlarge">>

ZoneList == <<"us-west-2a", "us-west-2b">>

Timestamps == 1..MaxRows

\* SpotPrice as the provider sends it, a decimal string, and its value as
\* float() reads it (in 1/10000 dollars).
PriceList == <<"0.2100", "0.3500", "0.4200", "0.5600">>

PriceValues == <<2100, 3500, 4200, 5600>>

Float(text) == PriceValues[Index(PriceList, text)]

\* The price the provider recorded for a shape at a time.
SpotPriceAt(shape, ts) ==
    PriceList[((Index(ShapeList, shape) + ts) % Len(PriceList)) + 1]

HistoryRow(shape, zone, ts) ==
    [InstanceType |-> shape, AvailabilityZone |-> zone,
     SpotPrice |-> SpotPriceAt(shape, ts), Timestamp |-> ts]

\* The calls made: one or both instance types, with or without a zone.
PriceQueries ==
    {[instance_types |-> t, availability_zone |-> z] :
        t \in {<<ShapeList[1]>>, <<ShapeList[1], ShapeList[2]>>},
        z \in {None, ZoneList[1]}}

Elements(seq) == {seq[k] : k \in DOMAIN seq}

\* The rows the provider can answer a query with: rows of the instance
\* types and of the zone asked for, in any number up to MaxRows and in any
\* order.
Histories(q) ==
    LET rows == {HistoryRow(sh, z, ts) :
                    sh \in Elements(q.instance_types),
                    z \in IF q.availability_zone = None
                          THEN Elements(ZoneList)
                          ELSE {q.availability_zone},
                    ts \in Timestamps}
    IN  UNION {[1..n -> rows] : n \in 0..MaxRows}

PriceParams(q) ==
    [InstanceTypes |-> q.instance_types,
     AvailabilityZone |-> q.availability_zone,
     MaxResults |-> 100]

Key(item) == <<item.InstanceType, item.AvailabilityZone>>

PriceEntry(item) ==
    [instance_type |-> item.InstanceType,
     availability_zone |-> item.AvailabilityZone,
     spot_price |-> Float(item.SpotPrice),
     timestamp |-> item.Timestamp]

\* The keys in the order of sorted(): by instance type, then by zone.
KeyOrder ==
    [k \in 1..(Len(ShapeList) * Len(ZoneList)) |->
        <<ShapeList[((k - 1) \div Len(ZoneList)) + 1],
          ZoneList[((k - 1) % Len(ZoneList)) + 1]>>]

\* latest_prices after the loop over the rows: for each key the entry made
\* from the first row that has it ("if key not in latest_prices").
LatestPrices(history) ==
    [key \in {Key(history[k]) : k \in DOMAIN history} |->
        LET k == CHOOSE j \in DOMAIN history :
                    /\ Key(history[j]) = key
                    /\ \A h \in 1..(j - 1) : Key(history[h]) # key
        IN  PriceEntry(history[k])]

\* sorted(latest_prices.values(), key=(instance_type, availability_zone))
SortedPrices(latest_prices) ==
    LET keys == SelectSeq(KeyOrder, LAMBDA key : key \in DOMAIN latest_prices)
    IN  [k \in DOMAIN keys |-> latest_prices[keys[k]]]

GetSpotPricesPropagating(q, o, history) ==
    IF o = "ok"
    THEN [raised |-> FALSE, ret |-> SortedPrices(LatestPrices(history))]
    ELSE [raised |-> TRUE, ret |-> <<>>]

\* One pass of the body of get_spot_prices, the query ending in outcome o
\* and answered, if it is, with history: a ClientError is caught and
\* answered with [], any other exception leaves the body.
GetSpotPrices(q, o, history) ==
    IF o = "ok"
    THEN [raised |-> FALSE, ret |-> SortedPrices(LatestPrices(history))]
    ELSE IF o = "ClientError"
    THEN [raised |-> FALSE, ret |-> <<>>]
    ELSE [raised |-> TRUE, ret |-> <<>>]

\* One pass of the retry wrapper's loop around get_spot_prices
\* (max_retries=3), as in Operate.
SpotPrices(m, q) ==
    /\ out = NoOut
    /\ \/ pc[m] = Idle
       \/ pc[m].op = "prices" /\ pc[m].query = q
    /\ LET attempt == IF pc[m] = Idle THEN 0 ELSE pc[m].attempt
       IN  \E o \in Outcomes :
           \E history \in IF o = "ok" THEN Histories(q) ELSE {<<>>} :
            LET r == GetSpotPrices(q, o, history)
                retry == r.raised /\ attempt < MaxRetries
            IN  /\ pc' = [pc EXCEPT ![m] =
                            IF retry
                            THEN [op |-> "prices", query |-> q,
                                  attempt |-> attempt + 1]
                            ELSE Idle]
                /\ out' = [op |-> "prices", m |-> m, query |-> q,
                           params |-> PriceParams(q), outcome |-> o,
                           history |-> history, attempt |-> attempt,
                           ret |-> r.ret, raised |-> r.raised,
                           retry |-> retry]
    /\ UNCHANGED <<ec2, region, client, files>>

-----------------------------------------------------------------------------
(* Spot placement scores: get_spot_capacity_scores (no retry wrapper) *)

\* Longest list of instance types asked about.
MaxShapes == 12

\* instance_types[:10]
ApiLimit == 10

Letters ==
    <<"a", "b", "c", "d", "e", "f", "g", "h", "i", "j", "k", "l", "m", "n",
      "o", "p">>

ShapeName(k) == "type-" \o Letters[k]

\* The lists asked about: n distinct instance types, in ascending or in
\* descending order of name.
ShapeLists ==
    UNION {{[k \in 1..n |-> ShapeName(k)],
            [k \in 1..n |-> ShapeName(n + 1 - k)]} : n \in 0..MaxShapes}

Min(a, b) == IF a <= b THEN a ELSE b

SliceLastTen(instance_types) ==
    SubSeq(instance_types,
           Len(instance_types) - Min(Len(instance_types), ApiLimit) + 1,
           Len(instance_types))

\* instance_types[:10]
Slice(instance_types) ==
    SubSeq(instance_types, 1, Min(Len(instance_types), ApiLimit))

ScoreParams(instance_types, target_capacity, single_az, reg) ==
    [InstanceTypes |-> Slice(instance_types),
     TargetCapacity |-> target_capacity,
     SingleAvailabilityZone |-> single_az,
     RegionNames |-> <<reg>>]

\* How the placement-score call can end: as any remote call, or with the
\* provider error UnsupportedOperation, or with an exception of another
\* class.
ScoreOutcomes == Outcomes \cup {"UnsupportedOperation", "Exception"}

AzIds == <<"usw2-az1", "usw2-az2">>

AzNames == <<"us-west-2a", "us-west-2b">>

\* The items of a SpotPlacementScores response: per zone or per region.
ScoreItems ==
    {[AvailabilityZoneId |-> AzIds[1], Region |-> None, Score |-> 7],
     [AvailabilityZoneId |-> AzIds[2], Region |-> None, Score |-> 3],
     [AvailabilityZoneId |-> None, Region |-> RegionDirectory[2],
      Score |-> 9]}

ScoreResponses == UNION {[1..n -> ScoreItems] : n \in 0..2}

\* How describe_availability_zones(ZoneIds=[az_id]) ends for each zone id:
\* with the zone, with an empty list, or with an exception.
ZoneLookups == [Elements(AzIds) -> {"ok", "empty", "error"}]

EmptyMap == [x \in {} |-> 0]

Put(scores, key, score) ==
    [x \in DOMAIN scores \cup {key} |->
        IF x = key THEN score ELSE scores[x]]

\* The loop over the response's items.
RECURSIVE CollectScores(_, _, _, _)
CollectScores(items, single_az, lookups, scores) ==
    IF items = <<>>
    THEN scores
    ELSE LET item == Head(items)
             az_id == item.AvailabilityZoneId
             next ==
                IF single_az /\ az_id # None
                THEN CASE lookups[az_id] = "ok" ->
                            Put(scores, AzNames[Index(AzIds, az_id)],
                                item.Score)
                       [] lookups[az_id] = "empty" -> scores
                       [] lookups[az_id] = "error" ->
                            Put(scores, az_id, item.Score)
                ELSE IF ~single_az /\ item.Region # None
                THEN Put(scores, item.Region, item.Score)
                ELSE scores
         IN  CollectScores(Tail(items), single_az, lookups, next)

GetSpotCapacityScoresPropagating(single_az, o, items, lookups) ==
    IF o = "ok"
    THEN [raised |-> FALSE,
          ret |-> CollectScores(items, single_az, lookups, EmptyMap)]
    ELSE IF o \in {"UnsupportedOperation", "ClientError"}
    THEN [raised |-> FALSE, ret |-> EmptyMap]
    ELSE [raised |-> TRUE, ret |-> EmptyMap]

\* The body of get_spot_capacity_scores after the request is built: the
\* two handlers answer every exception with {}.
GetSpotCapacityScores(single_az, o, items, lookups) ==
    IF o = "ok"
    THEN [raised |-> FALSE,
          ret |-> CollectScores(items, single_az, lookups, EmptyMap)]
    ELSE IF o = "UnsupportedOperation"
    THEN [raised |-> FALSE, ret |-> EmptyMap]
    ELSE IF o = "ClientError"
    THEN [raised |-> FALSE, ret |-> EmptyMap]
    ELSE [raised |-> FALSE, ret |-> EmptyMap]

\* target_capacity: the default and one other value.
TargetCapacities == {1, 5}

\* One call of get_spot_capacity_scores.
SpotCapacityScores(m, instance_types, target_capacity, single_az) ==
    /\ out = NoOut
    /\ pc[m] = Idle
    /\ \E o \in ScoreOutcomes :
       \E items \in IF o = "ok" THEN ScoreResponses ELSE {<<>>} :
       \E lookups \in IF o = "ok" /\ single_az /\ items # <<>>
                      THEN ZoneLookups
                      ELSE {[z \in Elements(AzIds) |-> "ok"]} :
        LET r == GetSpotCapacityScores(single_az, o, items, lookups)
        IN  out' = [op |-> "scores", m |-> m,
                    instance_types |-> instance_types,
                    params |-> ScoreParams(instance_types, target_capacity,
                                           single_az, region[m]),
                    outcome |-> o, items |-> items, lookups |-> lookups,
                    ret |-> r.ret, raised |-> r.raised]
    /\ UNCHANGED <<ec2, region, client, pc, files>>

\* Price and capacity queries, one after another.
NextSpot ==
    \/ \E q \in PriceQueries : SpotPrices(Operator, q)
    \/ \E instance_types \in ShapeLists,
          target_capacity \in TargetCapacities, single_az \in BOOLEAN :
            SpotCapacityScores(Operator, instance_types, target_capacity,
                               single_az)
    \/ Return

SpecSpot == Init /\ [][NextSpot]_vars

-----------------------------------------------------------------------------
(* create_instance: from the call to the launch request (run_params) *)

\* The keyword parameters of create_instance; a call with any other
\* keyword is refused by the interpreter with a TypeError before the body
\* runs.
CreateKeywords ==
    {"profile_name", "instance_name", "app_class", "spot_price", "dry_run",
     "availability_zone"}

\* Prices, in cents per hour: NoPrice stands for None (no price given),
\* then zero and two amounts; StrPrice is str() of the amount in dollars.
NoPrice == -1

BidList == <<5, 12>>

BidTexts == <<"0.05", "0.12">>

StrPrice(price) == BidTexts[Index(BidList, price)]

PriceArgs == {NoPrice, 0} \cup Elements(BidList)

\* A profile file read by load_profile: a mapping that has a key or not.
Optional(key, values) == {EmptyMap} \cup {key :> v : v \in values}

LaunchProfiles ==
    {("name" :> "web") @@ a @@ b @@ c @@ d :
        a \in Optional("spot_instance", BOOLEAN),
        b \in Optional("hibernation_enabled", {TRUE}),
        c \in Optional("spot_price", {0, BidList[1]}),
        d \in Optional("key_name", {"profile-key"})}

\* dict.get(key, default)
Get(mapping, key, default) ==
    IF key \in DOMAIN mapping THEN mapping[key] ELSE default

\* Truth value of a price: None and 0 are false.
TruthyPrice(v) == v \notin {NoPrice, 0}

\* Truth value of a key name: None and "" are false.
Truthy(v) == v \notin {None, ""}

\* "if spot_price is not None: profile['spot_price'] = spot_price"
Overridden(profile, spot_price) ==
    IF spot_price # NoPrice THEN ("spot_price" :> spot_price) @@ profile
    ELSE profile

\* The key name chosen: the profile's, else the region entry's key_name or
\* default_key (region_key: what the directory gives for self.region).
KeyName(profile, region_key) ==
    IF Truthy(Get(profile, "key_name", None))
    THEN Get(profile, "key_name", None)
    ELSE region_key

SpotOptionsAlwaysPriced(profile, hibernation_enabled) ==
    [SpotInstanceType |->
        IF hibernation_enabled THEN "persistent" ELSE "one-time",
     InstanceInterruptionBehavior |->
        IF hibernation_enabled THEN "hibernate" ELSE "terminate"]
    @@ ("MaxPrice" :> IF TruthyPrice(Get(profile, "spot_price", NoPrice))
                      THEN StrPrice(Get(profile, "spot_price", NoPrice))
                      ELSE "0.0")

SpotOptionsOneTime(profile, hibernation_enabled) ==
    [SpotInstanceType |-> "one-time",
     InstanceInterruptionBehavior |-> "terminate"]
    @@ (IF TruthyPrice(Get(profile, "spot_price", NoPrice))
        THEN "MaxPrice" :> StrPrice(Get(profile, "spot_price", NoPrice))
        ELSE EmptyMap)

\* spot_options: MaxPrice only when the profile, after the override, has a
\* price that is true.
SpotOptions(profile, hibernation_enabled) ==
    [SpotInstanceType |->
        IF hibernation_enabled THEN "persistent" ELSE "one-time",
     InstanceInterruptionBehavior |->
        IF hibernation_enabled THEN "hibernate" ELSE "terminate"]
    @@ (IF TruthyPrice(Get(profile, "spot_price", NoPrice))
        THEN "MaxPrice" :> StrPrice(Get(profile, "spot_price", NoPrice))
        ELSE EmptyMap)

\* time.strftime(...) at the call.
CreatedAt == "2025-01-01 00:00:00 UTC"

TagsProfileFirst(profile, profile_name, instance_name, app_class) ==
    Get(profile, "tags", EmptyMap)
    @@ (IF Get(profile, "hibernation_enabled", FALSE)
        THEN "HibernationEnabled" :> "true" ELSE EmptyMap)
    @@ (IF Get(profile, "spot_instance", FALSE)
        THEN "InstanceType" :> "spot" ELSE EmptyMap)
    @@ ("Profile" :> profile_name)
    @@ ("CreatedAt" :> CreatedAt)
    @@ ("CreatedBy" :> "spotman")
    @@ (IF Truthy(app_class)
        THEN "ApplicationClass" :> app_class ELSE EmptyMap)
    @@ ("Name" :> instance_name)

\* tags: a copy of the profile's own tags, then the assignments of the
\* body in their order, a later assignment replacing the value of its key
\* (the leftmost operand of @@ is the last assignment).
Tags(profile, profile_name, instance_name, app_class) ==
    (IF Get(profile, "hibernation_enabled", FALSE)
     THEN "HibernationEnabled" :> "true" ELSE EmptyMap)
    @@ (IF Get(profile, "spot_instance", FALSE)
        THEN "InstanceType" :> "spot" ELSE EmptyMap)
    @@ ("Profile" :> profile_name)
    @@ ("CreatedAt" :> CreatedAt)
    @@ ("CreatedBy" :> "spotman")
    @@ (IF Truthy(app_class)
        THEN "ApplicationClass" :> app_class ELSE EmptyMap)
    @@ ("Name" :> instance_name)
    @@ Get(profile, "tags", EmptyMap)

\* tag_specifications: the tags in the provider's format, one Key and
\* Value pair for each.
TagSpecifications(tags) ==
    <<[ResourceType |-> "instance",
       Tags |-> {[Key |-> k, Value |-> tags[k]] : k \in DOMAIN tags}]>>

\* The tags of a request, read back as a mapping.
TagsOf(request) ==
    LET pairs == request["TagSpecifications"][1].Tags
    IN  [k \in {t.Key : t \in pairs} |->
            (CHOOSE t \in pairs : t.Key = k).Value]

\* run_params, with the keys that depend on the market type, the
\* hibernation flag, the key name, the tags and dry_run; profile is the
\* profile after the price override.
RunParams(profile, key_name, dry_run, tags) ==
    LET spot_instance == Get(profile, "spot_instance", FALSE)
        hibernation_enabled == Get(profile, "hibernation_enabled", FALSE)
    IN  [MinCount |-> 1, MaxCount |-> 1, DryRun |-> dry_run,
         KeyName |-> key_name, TagSpecifications |-> TagSpecifications(tags)]
        @@ (IF spot_instance
            THEN "InstanceMarketOptions" :>
                    [MarketType |-> "spot",
                     SpotOptions |-> SpotOptions(profile, hibernation_enabled)]
            ELSE EmptyMap)
        @@ (IF hibernation_enabled
            THEN "HibernationOptions" :> [Configured |-> TRUE]
            ELSE EmptyMap)

\* The profile names and application classes create_instance is called
\* with; None is the default of app_class.
ProfileNames == {"web", "batch"}

AppClasses == {None, "api"}

\* The keywords a caller may add to a call, beyond those of the signature.
ExtraKeywords == {{}, {"spot_override"}}

RegionKeys == {None, "region-key"}

\* One call of create_instance up to the launch request, the name being
\* free: the interpreter checks the keywords; the body loads the profile,
\* applies the price override, resolves image and subnet (prep) and the
\* key name, and builds run_params.  request is None when the call ends
\* before run_params is built.
PrepareLaunch(m, profile_name, instance_name, app_class, profile, spot_price, dry_run, extra, region_key) ==
    /\ out = NoOut
    /\ pc[m] = Idle
    /\ \E prep \in Preparations :
        LET refused == ~(extra \subseteq CreateKeywords)
            effective == Overridden(profile, spot_price)
            key_name == KeyName(effective, region_key)
            tags == Tags(profile, profile_name, instance_name, app_class)
            built == ~refused /\ prep = "ok" /\ Truthy(key_name)
        IN  out' = [op |-> "launch", m |-> m, profile |-> profile,
                    profile_name |-> profile_name,
                    instance_name |-> instance_name, app_class |-> app_class,
                    spot_price |-> spot_price, dry_run |-> dry_run,
                    extra |-> extra, region_key |-> region_key,
                    raised |-> refused,
                    request |-> IF built
                                THEN RunParams(effective, key_name, dry_run,
                                               tags)
                                ELSE EmptyMap]
    /\ UNCHANGED <<ec2, region, client, pc, files>>

NextLaunch ==
    \/ \E profile_name \in ProfileNames, instance_name \in Names,
          app_class \in AppClasses, profile \in LaunchProfiles,
          spot_price \in PriceArgs, dry_run \in BOOLEAN,
          extra \in ExtraKeywords, region_key \in RegionKeys :
            PrepareLaunch(Operator, profile_name, instance_name, app_class,
                          profile, spot_price, dry_run, extra, region_key)
    \/ Return

SpecLaunch == Init /\ [][NextLaunch]_vars

-----------------------------------------------------------------------------
(* create_instance as a whole, under its retry wrapper *)

\* The profiles created from: on demand or spot, with hibernation or not,
\* with a key of their own or not.
CreateProfiles ==
    {p \in LaunchProfiles :
        /\ "spot_price" \notin DOMAIN p
        /\ Get(p, "spot_instance", TRUE)}

CreatePrices == {NoPrice, BidList[1]}

\* name_exists: what _instance_name_exists returned.
CreateResult(name_exists, ret, raised, world, fs, calls, request) ==
    [name_exists |-> name_exists, ret |-> ret, raised |-> raised,
     world |-> world, files |-> fs, calls |-> calls, request |-> request]

\* What the instance launched from a request reads back as.
Launched(request) ==
    [spot_instance |-> "InstanceMarketOptions" \in DOMAIN request,
     hibernation_enabled |-> "HibernationOptions" \in DOMAIN request,
     tags |-> TagsOf(request)]

CreateInstanceKeyless(world, fs, cli, profile_name, instance_name, app_class, profile, spot_price, dry_run, region_key, details) ==
    UNION {
        LET chk == InstanceNameExists(world, cli, instance_name, o1)
            log == <<NameLookup(cli, instance_name, o1)>>
            effective == Overridden(profile, spot_price)
            key_name == KeyName(effective, region_key)
            tags == Tags(profile, profile_name, instance_name, app_class)
            run_params == RunParams(effective, key_name, dry_run, tags)
        IN  IF chk.raised \/ chk.exists \/ prep # "ok"
            THEN {CreateResult(chk.exists, None, FALSE, world, fs, log, EmptyMap)}
            ELSE IF dry_run
            THEN {CreateResult(chk.exists, None, FALSE, world, fs, log, run_params)}
            ELSE UNION {
                {CreateResult(chk.exists, r.ret, r.raised, r.world, r.files,
                              r.calls, run_params)
                 : r \in LaunchAndWait(world, fs, cli, instance_name,
                                       Launched(run_params), o, log, details)}
                : o \in Outcomes}
        : o1 \in Outcomes, prep \in Preparations}

\* One pass through the body of create_instance: the duplicate-name check
\* (lookup outcome o1), the profile, image and subnet (prep), the key name,
\* run_params, the return of dry-run mode, then the launch call (outcome o),
\* the wait and the registration.  Every exception is caught in the body and
\* answered with None.  details: what the registrar may be given for the
\* instance.
CreateInstance(world, fs, cli, profile_name, instance_name, app_class, profile, spot_price, dry_run, region_key, details) ==
    UNION {
        LET chk == InstanceNameExists(world, cli, instance_name, o1)
            log == <<NameLookup(cli, instance_name, o1)>>
            effective == Overridden(profile, spot_price)
            key_name == KeyName(effective, region_key)
            tags == Tags(profile, profile_name, instance_name, app_class)
            run_params == RunParams(effective, key_name, dry_run, tags)
        IN  IF chk.raised \/ chk.exists \/ prep # "ok" \/ ~Truthy(key_name)
            THEN {CreateResult(chk.exists, None, FALSE, world, fs, log, EmptyMap)}
            ELSE IF dry_run
            THEN {CreateResult(chk.exists, None, FALSE, world, fs, log, run_params)}
            ELSE UNION {
                {CreateResult(chk.exists, r.ret, r.raised, r.world, r.files,
                              r.calls, run_params)
                 : r \in LaunchAndWait(world, fs, cli, instance_name,
                                       Launched(run_params), o, log, details)}
                : o \in Outcomes}
        : o1 \in Outcomes, prep \in Preparations}

\* One pass of the retry wrapper's loop (max_retries=3) around
\* create_instance: an exception that leaves the body is retried while
\* attempts remain.  launches counts the run_instances calls of the
\* invocation, over all its passes.
CreatePass(m, profile_name, instance_name, app_class, profile, spot_price, dry_run, region_key, details) ==
    /\ out = NoOut
    /\ \/ pc[m] = Idle /\ Cardinality(ec2) < MaxInst
       \/ /\ pc[m].op = "create_instance"
          /\ pc[m].args = <<profile_name, instance_name, app_class, profile,
                            spot_price, dry_run, region_key>>
    /\ LET attempt == IF pc[m] = Idle THEN 0 ELSE pc[m].attempt
           before == IF pc[m] = Idle THEN 0 ELSE pc[m].launches
       IN  \E r \in CreateInstance(ec2, files, client[m], profile_name,
                                   instance_name, app_class, profile,
                                   spot_price, dry_run, region_key, details) :
            LET retry == r.raised /\ attempt < MaxRetries
                launches == before + Count(r.calls, "run_instances")
            IN  /\ ec2' = r.world
                /\ files' = r.files
                /\ pc' = [pc EXCEPT ![m] =
                            IF retry
                            THEN [op |-> "create_instance",
                                  args |-> <<profile_name, instance_name,
                                             app_class, profile, spot_price,
                                             dry_run, region_key>>,
                                  attempt |-> attempt + 1,
                                  launches |-> launches]
                            ELSE Idle]
                /\ out' = [op |-> "create_instance", m |-> m,
                           profile_name |-> profile_name,
                           instance_name |-> instance_name,
                           app_class |-> app_class,
                           profile |-> profile, spot_price |-> spot_price,
                           dry_run |-> dry_run, region_key |-> region_key,
                           attempt |-> attempt, ret |-> r.ret,
                           raised |-> r.raised, retry |-> retry,
                           calls |-> r.calls, launches |-> launches,
                           request |-> r.request,
                           name_exists |-> r.name_exists]
    /\ UNCHANGED <<region, client>>

NextCreate ==
    \/ \E instance_name \in Names, profile \in CreateProfiles,
          spot_price \in CreatePrices, dry_run \in BOOLEAN,
          region_key \in RegionKeys :
            CreatePass(Operator, profile["name"], instance_name, None,
                       profile, spot_price, dry_run, region_key, Details)
    \/ Return

SpecCreate == Init /\ [][NextCreate]_vars

-----------------------------------------------------------------------------
(* list_instances, and create_instance with the labels of its request *)

\* The tags describe_instances shows for an instance.
InstanceTags(i) == IF "tags" \in DOMAIN i THEN i.tags ELSE EmptyMap

FiltersWithoutCreator(app_class, state, profile_name, all_instances) ==
    (IF Truthy(app_class)
     THEN {[Name |-> "tag:ApplicationClass", Values |-> {app_class}]}
     ELSE {})
    \cup (IF Truthy(state)
          THEN {[Name |-> "instance-state-name", Values |-> {state}]}
          ELSE {})
    \cup (IF Truthy(profile_name)
          THEN {[Name |-> "tag:Profile", Values |-> {profile_name}]}
          ELSE {})

\* filters: one for each argument given, and the creator marker unless
\* all_instances.
Filters(app_class, state, profile_name, all_instances) ==
    (IF Truthy(app_class)
     THEN {[Name |-> "tag:ApplicationClass", Values |-> {app_class}]}
     ELSE {})
    \cup (IF Truthy(state)
          THEN {[Name |-> "instance-state-name", Values |-> {state}]}
          ELSE {})
    \cup (IF Truthy(profile_name)
          THEN {[Name |-> "tag:Profile", Values |-> {profile_name}]}
          ELSE {})
    \cup (IF ~all_instances
          THEN {[Name |-> "tag:CreatedBy", Values |-> {"spotman"}]}
          ELSE {})

TagPrefix == "tag:"

\* The provider's reading of one filter: the state name, or a tag that the
\* instance has with one of the values.
PassesFilter(i, f) ==
    IF f.Name = "instance-state-name"
    THEN i.state \in f.Values
    ELSE /\ StartsWith(f.Name, TagPrefix)
         /\ LET key == SubSeq(f.Name, Len(TagPrefix) + 1, Len(f.Name))
            IN  /\ key \in DOMAIN InstanceTags(i)
                /\ InstanceTags(i)[key] \in f.Values

\* describe_instances(Filters=filters) through the client of region cli.
DescribeFiltered(world, cli, filters) ==
    {i \in world : i.region = cli /\ \A f \in filters : PassesFilter(i, f)}

\* str.lower() of a tag value.
Lower(v) == IF v \in {"TRUE", "True", "true"} THEN "true" ELSE v

\* instance_info, with the fields read from the state and the tags.
InstanceInfo(i) ==
    [InstanceId |-> i.id,
     Name |-> Get(InstanceTags(i), "Name", "N/A"),
     State |-> i.state,
     ApplicationClass |-> Get(InstanceTags(i), "ApplicationClass", "N/A"),
     Profile |-> Get(InstanceTags(i), "Profile", "N/A"),
     SpotInstance |-> i.spot,
     HibernationEnabled |->
        Lower(Get(InstanceTags(i), "HibernationEnabled", "")) = "true"]

\* LaunchTime: ids are given in launch order.
LaunchTime(i) == CHOOSE k \in DOMAIN Digits : InstanceId(k) = i.id

\* instances.sort(key=LaunchTime, reverse=True)
RECURSIVE NewestFirst(_)
NewestFirst(found) ==
    IF found = {} THEN <<>>
    ELSE LET newest == CHOOSE i \in found :
                          \A j \in found : LaunchTime(j) <= LaunchTime(i)
         IN  <<InstanceInfo(newest)>> \o NewestFirst(found \ {newest})

\* One pass through the body of list_instances, the describe call ending
\* in outcome o: a provider error is caught and answered with the empty
\* list, a connectivity error leaves the body.
ListInstances(world, cli, app_class, state, profile_name, all_instances, o) ==
    LET filters == Filters(app_class, state, profile_name, all_instances)
    IN  [ret |-> IF o = "ok"
                 THEN NewestFirst(DescribeFiltered(world, cli, filters))
                 ELSE <<>>,
         raised |-> o = "ConnError",
         filters |-> filters]

\* max_retries of the wrapper around list_instances.
ListRetries == 2

ListStates == {None, "running"}

ListProfileNames == {None, "web"}

\* One pass of the retry wrapper's loop around list_instances.
ListPass(m, app_class, state, profile_name, all_instances) ==
    /\ out = NoOut
    /\ \/ pc[m] = Idle
       \/ /\ pc[m].op = "list_instances"
          /\ pc[m].args = <<app_class, state, profile_name, all_instances>>
    /\ LET attempt == IF pc[m] = Idle THEN 0 ELSE pc[m].attempt
       IN  \E o \in Outcomes :
            LET r == ListInstances(ec2, client[m], app_class, state,
                                   profile_name, all_instances, o)
                retry == r.raised /\ attempt < ListRetries
            IN  /\ pc' = [pc EXCEPT ![m] =
                            IF retry
                            THEN [op |-> "list_instances",
                                  args |-> <<app_class, state, profile_name,
                                             all_instances>>,
                                  attempt |-> attempt + 1]
                            ELSE Idle]
                /\ out' = [op |-> "list_instances", m |-> m,
                           app_class |-> app_class, state |-> state,
                           profile_name |-> profile_name,
                           all_instances |-> all_instances,
                           attempt |-> attempt, outcome |-> o,
                           ret |-> r.ret, raised |-> r.raised,
                           retry |-> retry, filters |-> r.filters]
    /\ UNCHANGED <<ec2, region, client, files>>

\* The tags a profile file may give: none, a team label, labels with the
\* keys that create_instance sets itself.
ProfileTags ==
    {("Team" :> "ops"),
     ("CreatedBy" :> "terraform") @@ ("Name" :> "golden")
        @@ ("Profile" :> "legacy") @@ ("Team" :> "ops")}

TagProfiles ==
    {("name" :> "web") @@ ("key_name" :> "profile-key") @@ t :
        t \in Optional("tags", ProfileTags)}

\* The calls of create_instance listed after: a profile without tags under
\* its own name, one with a team label, and one whose tags have the keys
\* that create_instance sets, under another profile name and with an
\* application class.
LabelledCalls ==
    {[profile_name |-> "web", instance_name |-> NameList[1],
      app_class |-> None, profile |-> p] :
        p \in {q \in TagProfiles : "tags" \notin DOMAIN q}}
    \cup {[profile_name |-> "web", instance_name |-> NameList[2],
           app_class |-> None, profile |-> p] :
            p \in {q \in TagProfiles :
                      /\ "tags" \in DOMAIN q
                      /\ "CreatedBy" \notin DOMAIN q["tags"]}}
    \cup {[profile_name |-> "batch", instance_name |-> n,
           app_class |-> "api", profile |-> p] :
            n \in Names,
            p \in {q \in TagProfiles :
                      /\ "tags" \in DOMAIN q
                      /\ "CreatedBy" \in DOMAIN q["tags"]}}

\* An instance that another tool launched in the home region.
Foreign ==
    Instance(1, RegionDirectory[2], NameList[1], "running", FALSE, FALSE)
    @@ [tags |-> ("Name" :> NameList[1]) @@ ("CreatedBy" :> "terraform")]

InitList ==
    /\ ec2 \in {{}, {Foreign}}
    /\ InitManagers
    /\ files = NoFiles
    /\ \A m \in Operators : region[m] = RegionDirectory[2]

NextList ==
    \/ \E c \in LabelledCalls :
            CreatePass(Operator, c.profile_name, c.instance_name, c.app_class,
                       c.profile, NoPrice, FALSE, None, PrivateDetails)
    \/ \E app_class \in AppClasses, state \in ListStates,
          profile_name \in ListProfileNames, all_instances \in BOOLEAN :
            ListPass(Operator, app_class, state, profile_name, all_instances)
    \/ Return

SpecList == InitList /\ [][NextList]_vars

-----------------------------------------------------------------------------
(* The registrar on its own: records added for instances one after another *)

\* Host aliases ("spotman-" and the Name tag); one is a part of another.
HostNames == {"spotman-" \o n : n \in Names} \cup {"spotman-web"}

\* The ids of the instances registered.
RegisteredIds == {InstanceId(1), InstanceId(2)}

\* The main login configuration as the user left it: none, one with an
\* entry of the user's own, one that has the include line already.
MainFiles ==
    {Absent,
     File(<<"Host github.com", "    User git", "">>),
     File(<<IncludeLine, "", "Host github.com", "    User git", "">>)}

InitRegistrar ==
    /\ ec2 = {}
    /\ InitManagers
    /\ region[Creator] = region[Operator]
    /\ region[Operator] = RegionDirectory[1]
    /\ files \in {[main |-> f, managed |-> Absent] : f \in MainFiles}

\* One call of _add_ssh_config_entry; before is the file system it found.
Register(m, instance_id, host_name) ==
    /\ out = NoOut
    /\ pc[m] = Idle
    /\ \E d \in Details, o \in Outcomes, io \in IoOutcomes :
        LET r == AddSshConfigEntry(files, client[m], instance_id, host_name,
                                   d, o, io)
        IN  /\ files' = r.files
            /\ out' = [op |-> "register", m |-> m,
                       instance_id |-> instance_id, host_name |-> host_name,
                       details |-> d, outcome |-> o, io |-> io,
                       before |-> files, ret |-> r.ret, raised |-> r.raised]
    /\ UNCHANGED <<ec2, region, client, pc>>

\* One call of _ensure_ssh_include_setup; before is the file system it
\* found.
EnsureSetup(m) ==
    /\ out = NoOut
    /\ pc[m] = Idle
    /\ \E io \in IoOutcomes :
        LET r == EnsureSshIncludeSetup(files, io)
        IN  /\ files' = r.files
            /\ out' = [op |-> "ensure_setup", m |-> m, io |-> io,
                       before |-> files, ret |-> r.ret, raised |-> r.raised]
    /\ UNCHANGED <<ec2, region, client, pc>>

NextRegistrar ==
    \/ \E instance_id \in RegisteredIds, host_name \in HostNames :
            Register(Operator, instance_id, host_name)
    \/ EnsureSetup(Operator)
    \/ Return

SpecRegistrar == InitRegistrar /\ [][NextRegistrar]_vars

-----------------------------------------------------------------------------
(* Properties of the resolver, stated on the record of the last call *)

Resolved == out.op = "resolve"

\* An identifier of the provider's form: prefix "i-", ten characters or more.
NativeId(identifier) ==
    /\ Len(identifier) >= 10
    /\ SubSeq(identifier, 1, 2) = "i-"

\* The instances of region r that carry the name the last call asked for
\* and pass its state filter.
Held(r) ==
    {i \in ec2 : /\ i.region = r
                 /\ i.name = out.identifier
                 /\ out.include_terminated \/ i.state # "terminated"}

\* Home region first, then the other directory regions in directory order.
SearchOrder ==
    <<out.home>> \o
    SelectSeq(RegionDirectory, LAMBDA r : r # out.home)

QueriedRegions == [k \in DOMAIN out.queries |-> out.queries[k].region]

\* The first k regions of the search order were queried, in that order,
\* and no other.
QueriedExactly(k) == QueriedRegions = SubSeq(SearchOrder, 1, k)

FirstHolder(k) ==
    /\ k \in DOMAIN SearchOrder
    /\ Held(SearchOrder[k]) # {}
    /\ \A j \in 1..(k - 1) : Held(SearchOrder[j]) = {}

\* The k-th lookup returned a match.
Hit(k) ==
    /\ k \in DOMAIN out.queries
    /\ out.queries[k].outcome = "ok"
    /\ Held(out.queries[k].region) # {}

FirstHit(k) == Hit(k) /\ \A j \in 1..(k - 1) : ~Hit(j)

Unmoved == region[Resolver] = out.home /\ client[Resolver] = out.client

Candidates(r) == {<<i.id, i.state, r>> : i \in Held(r)}

\* C1: an identifier that starts with "i-" and has ten characters or more
\* comes back unchanged, with no lookup in any region and with the home
\* region and the client handle as they were, whatever the account holds.
C1_NativeIdUnchanged ==
    (Resolved /\ NativeId(out.identifier)) =>
        /\ out.ret = out.identifier
        /\ ~out.raised
        /\ out.queries = <<>>
        /\ Unmoved

C1_Witness ==
    /\ Resolved
    /\ NativeId(out.identifier)
    /\ out.ret = out.identifier
    /\ \E i \in ec2 : i.id = out.identifier /\ i.region # out.home
    /\ \E i \in ec2 : i.region = out.home

\* C2 as claimed: a name held by exactly one non-terminated instance of the
\* home region resolves to that instance, with the home region the only
\* one queried and left unchanged.
C2_AsClaimed ==
    (/\ Resolved
     /\ ~NativeId(out.identifier)
     /\ ~out.include_terminated
     /\ Cardinality(Held(out.home)) = 1) =>
        /\ \E i \in Held(out.home) : out.ret = i.id
        /\ QueriedExactly(1)
        /\ Unmoved

\* C2 amended: when the home-region lookup returns exactly one instance
\* (it does not fail, and one instance passes its filters), resolve returns
\* that instance's id, queries no other region and leaves the home region
\* and the client handle unchanged, also when other regions hold the name.
C2_HomeUnique ==
    (/\ Resolved
     /\ ~NativeId(out.identifier)
     /\ out.queries # <<>>
     /\ out.queries[1].outcome = "ok"
     /\ Cardinality(Held(out.home)) = 1) =>
        /\ \E i \in Held(out.home) : out.ret = i.id
        /\ ~out.raised
        /\ QueriedExactly(1)
        /\ Unmoved

C2_Witness ==
    /\ Resolved
    /\ ~NativeId(out.identifier)
    /\ Cardinality(Held(out.home)) = 1
    /\ \E r \in RegionSet \ {out.home} : Held(r) # {}
    /\ \E i \in Held(out.home) : out.ret = i.id
    /\ QueriedExactly(1)

\* C3 as claimed: when the first region of the search order that holds a
\* match holds two or more, resolve returns no identity, reports every
\* candidate of that region and queries no later region.
C3_AsClaimed ==
    (Resolved /\ ~NativeId(out.identifier)) =>
        \A k \in DOMAIN SearchOrder :
            (FirstHolder(k) /\ Cardinality(Held(SearchOrder[k])) >= 2) =>
                /\ out.ret = None
                /\ ~out.raised
                /\ out.reported = Candidates(SearchOrder[k])
                /\ QueriedExactly(k)

\* C3 amended: when the first lookup, in search order, that returns any
\* match (a failed lookup returns none) returns two or more, resolve
\* returns no identity, reports every candidate of that region with its
\* id, state and region, and queries no later region.
C3_AmbiguousStops ==
    (Resolved /\ ~NativeId(out.identifier)) =>
        \A k \in DOMAIN out.queries :
            (FirstHit(k) /\ Cardinality(Held(out.queries[k].region)) >= 2) =>
                /\ out.ret = None
                /\ ~out.raised
                /\ out.reported = Candidates(SearchOrder[k])
                /\ QueriedExactly(k)
                /\ Unmoved

C3_Witness ==
    /\ Resolved
    /\ ~NativeId(out.identifier)
    /\ Len(out.queries) = 2
    /\ FirstHit(2)
    /\ Cardinality(Held(out.queries[2].region)) >= 2
    /\ Cardinality(out.reported) >= 2
    /\ out.ret = None

\* C4 as claimed: with no match in the home region the other directory
\* regions are queried in directory order, and when the first of them that
\* holds a match holds exactly one, resolve returns its id, makes that
\* region the home region and the client's region, and queries no later one.
C4_AsClaimed ==
    (Resolved /\ ~NativeId(out.identifier) /\ Held(out.home) = {}) =>
        \A k \in DOMAIN SearchOrder :
            (FirstHolder(k) /\ Cardinality(Held(SearchOrder[k])) = 1) =>
                /\ \E i \in Held(SearchOrder[k]) : out.ret = i.id
                /\ region[Resolver] = SearchOrder[k]
                /\ client[Resolver] = SearchOrder[k]
                /\ QueriedExactly(k)

\* C4 amended: when the home-region lookup returns no match, the other
\* directory regions are queried one at a time in directory order (home
\* excluded); when the first of those lookups that returns any match (a
\* failed lookup returns none) returns exactly one, resolve returns that
\* id, sets the home region and the client handle to that region and
\* queries no later region.
C4_PromotesFirstUnique ==
    (Resolved /\ ~NativeId(out.identifier) /\ ~out.raised) =>
        /\ \E k \in DOMAIN SearchOrder : QueriedExactly(k)
        /\ \A k \in DOMAIN out.queries :
            (/\ k > 1
             /\ FirstHit(k)
             /\ Cardinality(Held(out.queries[k].region)) = 1) =>
                /\ \E i \in Held(SearchOrder[k]) : out.ret = i.id
                /\ region[Resolver] = SearchOrder[k]
                /\ client[Resolver] = SearchOrder[k]
                /\ QueriedExactly(k)

C4_Witness ==
    /\ Resolved
    /\ Len(out.queries) = 2
    /\ FirstHit(2)
    /\ Cardinality(Held(out.queries[2].region)) = 1
    /\ out.ret # None
    /\ region[Resolver] # out.home
    /\ region[Resolver] = out.queries[2].region
    /\ Held(SearchOrder[3]) # {}

\* C5 as claimed: a name with no match in the home region nor in any other
\* configured region gives not-found, and the home region and the client
\* handle are after the call what they were before it.
C5_AsClaimed ==
    (/\ Resolved
     /\ ~NativeId(out.identifier)
     /\ \A r \in RegionSet : Held(r) = {}) =>
        /\ out.ret = None
        /\ ~out.raised
        /\ Unmoved

\* C5 amended: a name with no match in any configured region never
\* resolves and never moves the home region or the client handle; resolve
\* returns not-found, unless the home-region lookup fails with a
\* connectivity/credential error, which leaves resolve as an exception.
C5_NotFoundUnmoved ==
    (/\ Resolved
     /\ ~NativeId(out.identifier)
     /\ \A r \in RegionSet : Held(r) = {}) =>
        /\ out.ret = None
        /\ Unmoved
        /\ out.reported = {}
        /\ out.raised <=> out.queries[1].outcome = "ConnError"
        /\ ~out.raised => QueriedExactly(Len(SearchOrder))

C5_Witness ==
    /\ Resolved
    /\ ~NativeId(out.identifier)
    /\ \A r \in RegionSet : Held(r) = {}
    /\ ec2 # {}
    /\ out.ret = None
    /\ ~out.raised
    /\ QueriedExactly(Len(SearchOrder))

\* A failed lookup that is not the last of the search order is followed by
\* the lookup of the next region.
SearchContinuesAfter(k) ==
    k < Len(SearchOrder) =>
        /\ Len(out.queries) > k
        /\ out.queries[k + 1].region = SearchOrder[k + 1]

\* C6 as claimed: a failed lookup, in the home region or in another one,
\* by a provider error or by a connectivity/credential failure, counts as
\* no match: nothing is propagated and the search goes on.
C6_AsClaimed ==
    (Resolved /\ ~NativeId(out.identifier)) =>
        /\ ~out.raised
        /\ \A k \in DOMAIN out.queries :
               out.queries[k].outcome # "ok" => SearchContinuesAfter(k)

\* C6 amended: a provider error (ClientError) in the lookup of any region,
\* and any failure in the lookup of a region other than the home region,
\* counts as no match in that region: it is not propagated and the search
\* goes on with the next region.  A connectivity/credential failure of the
\* home-region lookup is not caught and leaves resolve as an exception.
C6_FailureIsNoMatch ==
    (Resolved /\ ~NativeId(out.identifier)) =>
        /\ out.raised <=> out.queries[1].outcome = "ConnError"
        /\ out.raised => (Len(out.queries) = 1 /\ out.ret = None /\ Unmoved)
        /\ \A k \in DOMAIN out.queries :
               (/\ out.queries[k].outcome # "ok"
                /\ k > 1 \/ out.queries[k].outcome = "ClientError") =>
                    SearchContinuesAfter(k)

C6_Witness ==
    /\ Resolved
    /\ Len(out.queries) = 3
    /\ out.queries[1].outcome = "ClientError"
    /\ out.queries[2].outcome = "ConnError"
    /\ Held(out.home) # {}
    /\ out.ret # None
    /\ ~out.raised

-----------------------------------------------------------------------------
(* Properties of create and of the lifecycle operations *)

Live(i) == i.state \in {"pending", "running", "stopping", "stopped"}

\* The live instances of region r whose Name tag is name.
Holders(r, name) == {i \in ec2 : i.region = r /\ i.name = name /\ Live(i)}

Issued(api) == \E k \in DOMAIN out.calls : out.calls[k].api = api

\* C7: while the home region holds a pending, running, stopping or stopped
\* instance with the requested name, create_instance issues no
\* run_instances call and returns no identity.  With one operator the
\* holders of a name other than the instance just launched were there when
\* the name was checked.
C7_NoLaunchWhileNameHeld ==
    (out.op = "create" /\ Holders(out.home, out.identifier) # {}) =>
        \/ /\ ~Issued("run_instances")
           /\ out.ret = None
        \/ /\ out.ret # None
           /\ \A i \in Holders(out.home, out.identifier) : i.id = out.ret

\* C8: with a single operator issuing create, stop, start, hibernate,
\* resume and terminate one after another in one home region, a region
\* never holds two live instances with the same display name.
C8_UniqueLiveNames ==
    \A i \in ec2, j \in ec2 :
        (i.region = j.region /\ i.name = j.name /\ Live(i) /\ Live(j)) =>
            i.id = j.id

\* The last step launched an instance for a create whose duplicate-name
\* check was answered by the provider and found the name free, although the
\* other creator's instance of that name is live in the region by now.
RaceLaunched ==
    /\ out.op = "create"
    /\ out.ret # None
    /\ out.calls[1].outcome = "ok"
    /\ \E i \in ec2 : /\ i.id # out.ret
                      /\ i.region = out.home
                      /\ i.name = out.identifier
                      /\ Live(i)

\* C9: two create_instance calls for one name that both run the
\* duplicate-name check before either launches both pass it and both
\* launch; the region then holds two live instances of the name, and every
\* resolve of the name from that region whose lookup is answered returns
\* no identity and reports both.
C9_RaceLeavesAmbiguousName ==
    RaceLaunched =>
        /\ \E i \in Holders(out.home, out.identifier) : i.id = out.ret
        /\ Cardinality(Holders(out.home, out.identifier)) >= 2
        /\ \A r \in ResolveIdentifier(ec2, out.home, out.home,
                                      out.identifier, FALSE) :
               r.queries[1].outcome = "ok" =>
                   /\ r.ret = None
                   /\ ~r.raised
                   /\ Len(r.queries) = 1
                   /\ {c[1] : c \in r.reported} =
                        {i.id : i \in Holders(out.home, out.identifier)}

C9_Witness ==
    /\ RaceLaunched
    /\ out.m = Creator
    /\ pc[Operator] = Idle
    /\ Cardinality(Holders(out.home, out.identifier)) = 2

Cancel == "cancel_spot_instance_requests"

SpotTarget(k) == \E i \in ec2 : i.id = out.calls[k].target /\ i.spot

\* In the last pass every terminate call on an instance with a spot
\* request comes right after a cancel call for it.
CancelFirst ==
    \A j \in DOMAIN out.calls :
        (out.calls[j].api = "terminate_instances" /\ SpotTarget(j)) =>
            /\ j > 1
            /\ out.calls[j - 1].api = Cancel
            /\ out.calls[j - 1].target = out.calls[j].target

\* C10 as claimed: terminate_instance on an instance with a spot request
\* issues the cancel call before the terminate call, and an invocation
\* whose cancel call fails, in whatever way, still issues the terminate
\* call.
C10_AsClaimed ==
    (out.op = "terminate" /\ ~out.retry) =>
        /\ CancelFirst
        /\ \A k \in DOMAIN out.calls :
               (out.calls[k].api = Cancel /\ out.calls[k].outcome # "ok") =>
                   out.sent > 0

\* C10 amended: terminate_instance on an instance with a spot request
\* issues the cancel call before the terminate call, and the terminate
\* call is still issued when the cancel call fails with a provider error
\* (ClientError).  A connectivity/credential failure of the cancel call
\* ends the pass with no terminate call and leaves the body as an
\* exception, for the retry wrapper to run the operation again.
C10_CancelThenTerminate ==
    out.op = "terminate" =>
        /\ CancelFirst
        /\ \A k \in DOMAIN out.calls :
               out.calls[k].api = Cancel =>
                   /\ SpotTarget(k)
                   /\ \A j \in 1..k : out.calls[j].api # "terminate_instances"
                   /\ out.calls[k].outcome \in {"ok", "ClientError"} =>
                        /\ Len(out.calls) = k + 1
                        /\ out.calls[k + 1].api = "terminate_instances"
                        /\ out.calls[k + 1].target = out.calls[k].target
                   /\ out.calls[k].outcome = "ConnError" =>
                        /\ Len(out.calls) = k
                        /\ out.raised

C10_Witness ==
    /\ out.op = "terminate"
    /\ out.identifier \in Names
    /\ out.ret = "True"
    /\ \E k \in DOMAIN out.calls :
        /\ out.calls[k].api = Cancel
        /\ out.calls[k].outcome = "ClientError"
        /\ out.calls[k + 1].api = "terminate_instances"
        /\ out.calls[k + 1].outcome = "ok"
    /\ \E i \in ec2 : i.name = out.identifier /\ i.spot
                      /\ i.state = "terminated"

-----------------------------------------------------------------------------
(* Properties of hibernate and resume, stated on one pass of the body: the
   account before the pass and the record of the pass *)

\* The step is one pass of operation op.
Pass(op) == out = NoOut /\ out'.op = op

\* The instances the pass fetched with its describe-by-id call, as they
\* were when it fetched them.
Fetched ==
    {i \in ec2 : \E k \in DOMAIN out'.calls :
        /\ out'.calls[k].api = "describe_instances"
        /\ out'.calls[k].outcome = "ok"
        /\ out'.calls[k].target = i.id
        /\ out'.calls[k].region = i.region}

StopCalls == {"stop_instances", "stop_instances_hibernate"}

IssuedIn(calls, apis) == \E k \in DOMAIN calls : calls[k].api \in apis

HibernateGuard ==
    Pass("hibernate") =>
        /\ IssuedIn(out'.calls, {"stop_instances_hibernate"}) =>
                \E i \in Fetched : i.hib /\ i.state = "running"
        /\ \A i \in Fetched :
                (~i.hib \/ i.state # "running") =>
                    /\ out'.ret = "False"
                    /\ ~out'.raised
                    /\ ~IssuedIn(out'.calls, StopCalls)
                    /\ ec2' = ec2

\* C11: hibernate_instance issues the stop-with-hibernate request only when
\* the instance it fetched has the hibernation flag set and is running; when
\* the flag is not set, or the state is not running, it returns False and
\* issues no stop call of any kind.
C11_HibernateOnlyConfiguredRunning == [][HibernateGuard]_vars

C11_Witness ==
    /\ out.op = "hibernate"
    /\ out.ret = "False"
    /\ ~IssuedIn(out.calls, StopCalls)
    /\ \E k \in DOMAIN out.calls, i \in ec2 :
        /\ out.calls[k].api = "describe_instances"
        /\ out.calls[k].outcome = "ok"
        /\ out.calls[k].target = i.id
        /\ ~i.hib
        /\ i.state = "running"

ResumeGuard ==
    Pass("resume") =>
        \A i \in Fetched :
            i.state = "running" =>
                /\ out'.ret = "True"
                /\ ~out'.raised
                /\ ~IssuedIn(out'.calls, {"start_instances"})
                /\ ec2' = ec2

\* C12: resume_hibernated_instance on an instance whose fetched state is
\* running returns True and issues no start call.
C12_ResumeRunningIsNoOp == [][ResumeGuard]_vars

C12_Witness ==
    /\ out.op = "resume"
    /\ out.ret = "True"
    /\ ~IssuedIn(out.calls, {"start_instances"})
    /\ \E k \in DOMAIN out.calls, i \in ec2 :
        /\ out.calls[k].api = "describe_instances"
        /\ out.calls[k].outcome = "ok"
        /\ out.calls[k].target = i.id
        /\ i.state = "running"

-----------------------------------------------------------------------------
(* Properties of the retry wrapper, stated on the record of a finished call
   and on the wrapper's loop while it runs *)

Wrapped == out.op = "wrapper"

Failure(e) == e # Returned

ProviderError(e) == e.kind = "ClientError"

\* The failure that left the wrapper is the one invocation k ended in.
Propagated(k) ==
    /\ out.raised = out.invoked[k].kind
    /\ out.code = out.invoked[k].code

\* C13 as claimed: with max_retries = N the wrapped operation is invoked at
\* most N times for one call.
C13_AsClaimed ==
    Wrapped => Len(out.invoked) <= out.max_retries

\* C13 amended: with max_retries = N the wrapped operation is invoked at
\* most N + 1 times for one call (attempts 0..N: a first try and up to N
\* retries), with a sleep between two invocations, and a failure of the
\* (N + 1)-th invocation is propagated whatever its classification.
C13_AtMostBudgetPlusOne ==
    /\ pc[Operator].op = "wrapper" =>
            /\ Len(pc[Operator].invoked) = pc[Operator].attempt
            /\ pc[Operator].attempt <= pc[Operator].max_retries
    /\ Wrapped =>
            /\ Len(out.invoked) <= out.max_retries + 1
            /\ Len(out.slept) = Len(out.invoked) - 1
            /\ \A k \in DOMAIN out.invoked :
                   (k = out.max_retries + 1 /\ Failure(out.invoked[k])) =>
                        Propagated(k)

C13_Witness ==
    /\ Wrapped
    /\ out.max_retries = 3
    /\ Len(out.invoked) = 4
    /\ out.invoked[4] = [kind |-> "ClientError", code |-> "Throttling"]
    /\ out.invoked[3].kind = "EndpointConnectionError"
    /\ out.raised = "ClientError"
    /\ out.code = "Throttling"

\* C14: a provider error whose code is in the permanent set, or in neither
\* set, ends the call at the invocation that raised it: no sleep follows
\* and that error is propagated, so that such an error of the first
\* invocation leaves exactly one invocation and no sleep.  A provider error
\* with a code of the retryable set, while attempts remain, is followed by
\* a sleep and another invocation.
C14_PermanentOnceRetryableAgain ==
    Wrapped =>
        \A k \in DOMAIN out.invoked :
            LET e == out.invoked[k]
            IN  /\ (/\ ProviderError(e)
                     /\ \/ e.code \in PERMANENT_ERRORS
                        \/ e.code \notin RETRYABLE_ERRORS \cup PERMANENT_ERRORS) =>
                        /\ Len(out.invoked) = k
                        /\ Len(out.slept) = k - 1
                        /\ Propagated(k)
                /\ (/\ ProviderError(e)
                     /\ e.code \in RETRYABLE_ERRORS
                     /\ k <= out.max_retries) =>
                        /\ Len(out.invoked) >= k + 1
                        /\ Len(out.slept) >= k

C14_Witness ==
    /\ Wrapped
    /\ out.max_retries = 2
    /\ out.invoked = <<[kind |-> "ClientError", code |-> "SlowDown"],
                       [kind |-> "ClientError",
                        code |-> "IncorrectInstanceState"]>>
    /\ Len(out.slept) = 1
    /\ out.code = "IncorrectInstanceState"

-----------------------------------------------------------------------------
(* The retry wrapper around the lifecycle operations *)

LifecycleOps == {"stop", "start", "terminate", "hibernate", "resume"}

LastCall == out.calls[Len(out.calls)]

\* The last call of the record was refused by the environment, not by the
\* provider for the state of its target: a ClientError such as Throttling
\* or RequestLimitExceeded on a call the provider would have accepted.
TransientlyRefused(api) ==
    /\ out.calls # <<>>
    /\ LastCall.api = api
    /\ LastCall.outcome = "ClientError"
    /\ api # "run_instances" =>
            Accepts(api, ec2, LastCall.region, LastCall.target)

\* C15: when the transition call of stop, start, terminate, hibernate or
\* resume fails with a retryable provider error the wrapper runs the
\* operation again while attempts remain, and a create whose run_instances
\* call fails that way reports the failure only after further launch
\* attempts.
C15_RetryableCallFailureIsRetried ==
    /\ (/\ out.op \in LifecycleOps
         /\ TransientlyRefused(MainCall(out.op))
         /\ out.attempt < MaxRetries) => out.retry
    /\ (/\ out.op = "create"
         /\ TransientlyRefused("run_instances")) =>
            Count(out.calls, "run_instances") > 1

-----------------------------------------------------------------------------
(* Properties of the price and capacity queries *)

Priced == out.op = "prices"

\* The rows of the response that are about one (shape, zone) pair.
RowsOf(pair) ==
    {k \in DOMAIN out.history :
        /\ out.history[k].InstanceType = pair[1]
        /\ out.history[k].AvailabilityZone = pair[2]}

EntriesOf(pair) ==
    {k \in DOMAIN out.ret :
        /\ out.ret[k].instance_type = pair[1]
        /\ out.ret[k].availability_zone = pair[2]}

\* C16: for a response with several rows for one (shape, zone) pair, in
\* whatever order, the result has exactly one entry for the pair and its
\* timestamp is the largest among the pair's rows.
C16_NewestRowPerPair ==
    (Priced /\ out.outcome = "ok") =>
        \A sh \in Elements(ShapeList), z \in Elements(ZoneList) :
            RowsOf(<<sh, z>>) # {} =>
                /\ Cardinality(EntriesOf(<<sh, z>>)) = 1
                /\ \A e \in EntriesOf(<<sh, z>>), k \in RowsOf(<<sh, z>>) :
                       out.ret[e].timestamp >= out.history[k].Timestamp

\* C17 as claimed: get_spot_prices never lets a failure of the price query
\* reach its caller; a call that ends after a failed query, retries
\* included, returns [].
C17_AsClaimed ==
    (Priced /\ ~out.retry) =>
        /\ ~out.raised
        /\ out.outcome # "ok" => out.ret = <<>>

\* C17 amended: get_spot_prices answers a provider error (ClientError) of
\* the price query with [], at once and without retry.  A connectivity/
\* credential failure leaves the body; the wrapper runs the operation
\* again up to max_retries times and propagates the failure of the last
\* attempt to the caller.
C17_SoftOnProviderError ==
    Priced =>
        /\ out.outcome = "ClientError" =>
                (~out.raised /\ ~out.retry /\ out.ret = <<>>)
        /\ out.outcome = "ConnError" =>
                (out.raised /\ (out.retry <=> out.attempt < MaxRetries))
        /\ out.raised => out.outcome = "ConnError"

C17_Witness ==
    /\ Priced
    /\ out.attempt = 2
    /\ out.outcome = "ClientError"
    /\ out.ret = <<>>
    /\ ~out.raised

Scored == out.op = "scores"

\* C18: get_spot_capacity_scores never raises; when the placement-score
\* call is unsupported or fails in any other way it returns the empty
\* mapping.
C18_ScoresNeverRaise ==
    Scored =>
        /\ ~out.raised
        /\ out.outcome # "ok" => DOMAIN out.ret = {}

C18_Witness ==
    /\ Scored
    /\ out.outcome = "ConnError"
    /\ Len(out.instance_types) > 0
    /\ DOMAIN out.ret = {}
    /\ ~out.raised

\* C19: a list of more than 10 instance types is sent as its first 10, in
\* the order given; a list of 10 or fewer is sent unchanged.
C19_FirstTenShapesSent ==
    Scored =>
        LET asked == out.instance_types
            sent == out.params.InstanceTypes
        IN  /\ Len(asked) > 10 =>
                /\ Len(sent) = 10
                /\ \A k \in 1..10 : sent[k] = asked[k]
            /\ Len(asked) <= 10 => sent = asked

C19_Witness ==
    /\ Scored
    /\ Len(out.instance_types) = 12
    /\ out.instance_types[1] = ShapeName(12)
    /\ Len(out.params.InstanceTypes) = 10
    /\ out.params.InstanceTypes[10] = ShapeName(3)

-----------------------------------------------------------------------------
(* Properties of the launch request *)

Prepared == out.op = "launch"

RequestBuilt == Prepared /\ DOMAIN out.request # {}

\* A max price was given: by the profile or as the call's spot_price.
ExplicitPrice ==
    "spot_price" \in DOMAIN out.profile \/ out.spot_price # NoPrice

\* The price in force: the call's spot_price if given, else the profile's.
PriceInForce ==
    IF out.spot_price # NoPrice THEN out.spot_price
    ELSE out.profile["spot_price"]

SpotRequested ==
    "spot_instance" \in DOMAIN out.profile /\ out.profile["spot_instance"]

CarriesSpotOptions ==
    /\ "InstanceMarketOptions" \in DOMAIN out.request
    /\ out.request["InstanceMarketOptions"].MarketType = "spot"

CarriesCeiling ==
    /\ "InstanceMarketOptions" \in DOMAIN out.request
    /\ "MaxPrice" \in DOMAIN out.request["InstanceMarketOptions"].SpotOptions

-----------------------------------------------------------------------------
(* Properties of the registrar, stated on the record of the last call and on
   the managed file it left *)

Registered == out.op = "register" /\ ~out.raised /\ out.ret

\* The lines of a text that open the Host record of an alias, and the
\* managed-by comment lines of an alias.
HostLinesOf(lines, host_name) ==
    {k \in DOMAIN lines : lines[k] = "Host " \o host_name}

CommentLinesOf(lines, host_name) ==
    {k \in DOMAIN lines :
        StartsWith(lines[k],
                   "# SpotMan managed entry for " \o host_name \o " (")}

\* The fields of the Host record opened at line k: the indented lines that
\* follow it.
FieldsAt(lines, k) ==
    LET stop == CHOOSE j \in (k + 1)..(Len(lines) + 1) :
                    /\ j = Len(lines) + 1 \/ ~StartsWith(lines[j], "    ")
                    /\ \A h \in (k + 1)..(j - 1) : StartsWith(lines[h], "    ")
    IN  SubSeq(lines, k + 1, stop - 1)

\* The managed file held a record of the alias when the call began.
Reregistered ==
    /\ Registered
    /\ out.before.managed.exists
    /\ HostLinesOf(out.before.managed.lines, out.host_name) # {}

\* C24: when the registrar is called for an alias that an earlier call has
\* a record of in the managed file, and the call succeeds, the file holds
\* exactly one Host line and exactly one managed-by comment line for the
\* alias, the comment directly above the Host line, and the comment and the
\* fields of the record (HostName, User, IdentityFile, StrictHostKeyChecking,
\* LocalForward) are those built from this call's instance id and details.
C24_UpsertKeepsOneRecord ==
    Reregistered =>
        LET lines == files.managed.lines
            entry == SshEntryLines(out.instance_id, out.host_name, out.details)
        IN  /\ Cardinality(HostLinesOf(lines, out.host_name)) = 1
            /\ Cardinality(CommentLinesOf(lines, out.host_name)) = 1
            /\ \A k \in HostLinesOf(lines, out.host_name) :
                /\ k > 1
                /\ lines[k - 1] = entry[1]
                /\ FieldsAt(lines, k) = SubSeq(entry, 3, Len(entry))

\* A second call with another address, user, key file and forwards than the
\* record it replaces (which had a key file and a forward, this one has
\* none), the replaced record standing before another alias's record.
C24_Witness ==
    /\ Reregistered
    /\ out.details = DetailList[2]
    /\ LET old == out.before.managed.lines
       IN  \E k \in HostLinesOf(old, out.host_name) :
            /\ FieldsAt(old, k)
                 = SubSeq(SshEntryLines(InstanceId(1), out.host_name,
                                        DetailList[1]), 3, 7)
            /\ \E j \in DOMAIN old : j > k /\ StartsWith(old[j], "Host ")

-----------------------------------------------------------------------------
(* Properties of create_instance as a whole, stated on one invocation: the
   account and the files before it, and the record of the call after it *)

Created == out.op = "create_instance"

\* The entries of a call log that are calls of api.
CallsOf(calls, api) == {k \in DOMAIN calls : calls[k].api = api}

\* run_instances has returned (an instance id) in the call recorded in o.
RunReturned(o) ==
    \E k \in CallsOf(o.calls, "run_instances") : o.calls[k].outcome = "ok"

\* The calls create_instance makes when nothing is rolled back.
ForwardCalls ==
    {"describe_instances_by_name", "run_instances", "wait_instance_running",
     "describe_instances"}

LaunchKept ==
    (Pass("create_instance") /\ RunReturned(out')) =>
        /\ ~out'.raised
        /\ \A k \in DOMAIN out'.calls : out'.calls[k].api \in ForwardCalls
        /\ \E i \in ec2' \ ec2 :
            /\ ec2' = ec2 \cup {i}
            /\ i.name = out'.instance_name
            /\ i.state \in {"pending", "running"}
            /\ out'.ret = i.id

\* C21: in every invocation of create_instance in which run_instances has
\* returned, whatever the wait and the registration do (running, bound
\* exceeded, waiter failure; record written, refused, or an exception), the
\* value returned is the id of the one instance the invocation added to the
\* account, that instance is still pending or running, no exception leaves
\* the call, and the call log holds only the name lookup, the launch, the
\* wait and the registrar's describe call (no terminate, stop or cancel).
C21_IdReturnedAfterLaunch == [][LaunchKept]_vars

\* A create whose wait exceeded its bound: registration skipped, id returned.
C21_Witness ==
    /\ Created
    /\ RunReturned(out)
    /\ \E k \in CallsOf(out.calls, "wait_instance_running") :
            out.calls[k].outcome = "timeout"
    /\ CallsOf(out.calls, "describe_instances") = {}
    /\ out.ret \in {i.id : i \in ec2}

\* A dry-run invocation that got as far as the launch request.
DryRunPrepared(o) ==
    o.op = "create_instance" /\ o.dry_run /\ o.request # EmptyMap

DryRunValidated ==
    (Pass("create_instance") /\ DryRunPrepared(out')) =>
        /\ \E k \in CallsOf(out'.calls, "run_instances") :
                out'.request.DryRun
        /\ ec2' = ec2
        /\ files' = files
        /\ out'.ret = None

\* C22: a dry-run invocation of create_instance that has built its launch
\* request hands the request (with DryRun set) to the provider's
\* run_instances for validation, leaves the account's instances and the
\* files as they were, and returns None.
C22_DryRunValidatesWithoutLaunch == [][DryRunValidated]_vars

\* The key the claim names: the profile's, else the region directory's.
ExpectedKey(o) ==
    IF Truthy(Get(o.profile, "key_name", None))
    THEN Get(o.profile, "key_name", None)
    ELSE o.region_key

\* C23: in every invocation of create_instance, each run_instances call
\* carries a KeyName that is a key (not None, not empty): the profile's
\* key_name when the profile has one, else the key the region directory
\* gives for the home region; and when neither exists the invocation makes
\* no run_instances call and returns None.
C23_NoLaunchWithoutKey ==
    Created =>
        /\ CallsOf(out.calls, "run_instances") # {} =>
            /\ "KeyName" \in DOMAIN out.request
            /\ Truthy(out.request.KeyName)
            /\ out.request.KeyName = ExpectedKey(out)
        /\ ~Truthy(ExpectedKey(out)) =>
            /\ CallsOf(out.calls, "run_instances") = {}
            /\ out.ret = None

\* A launch with the region directory's key, the profile having none.
C23_Witness ==
    /\ Created
    /\ RunReturned(out)
    /\ "key_name" \notin DOMAIN out.profile
    /\ out.request.KeyName = "region-key"

-----------------------------------------------------------------------------
(* Properties of resume, stop and start, stated on one pass of the body and
   on the record of an invocation *)

StartGuard ==
    Pass("resume") =>
        /\ IssuedIn(out'.calls, {"start_instances"})
                <=> \E i \in Fetched : i.state = "stopped"
        /\ Count(out'.calls, "start_instances") <= 1
        /\ \A i \in Fetched :
                i.state \notin {"running", "stopped"} =>
                    /\ out'.ret = "False"
                    /\ ~out'.raised
                    /\ ~IssuedIn(out'.calls, {"start_instances"})
                    /\ ec2' = ec2

\* C26: a pass of resume_hibernated_instance issues a start request (one)
\* exactly when the state it fetched is stopped; when the fetched state is
\* pending, stopping or terminated it returns False, raises nothing, issues
\* no start call and leaves the account as it was.
C26_StartOnlyWhenStopped == [][StartGuard]_vars

\* resume of an instance that is stopping: refused, no start call.
C26_Witness ==
    /\ out.op = "resume"
    /\ out.ret = "False"
    /\ ~IssuedIn(out.calls, {"start_instances"})
    /\ \E k \in DOMAIN out.calls, i \in ec2 :
        /\ out.calls[k].api = "describe_instances"
        /\ out.calls[k].outcome = "ok"
        /\ out.calls[k].target = i.id
        /\ i.state = "stopping"

Transitions == {"stop", "start"}

\* The last entry of the call log is the transition call of the operation.
Transition(o) ==
    /\ o.calls # <<>>
    /\ o.calls[Len(o.calls)].api = MainCall(o.op)

\* C27 as claimed: an invocation of stop_instance or start_instance that
\* has issued its transition request has issued it exactly once, and its
\* result (True or False, never an exception) tells whether the provider
\* accepted it.
C27_AsClaimed ==
    (out.op \in Transitions /\ ~out.retry /\ Transition(out)) =>
        /\ out.sent = 1
        /\ ~out.raised
        /\ out.ret = "True" <=> LastCall.outcome = "ok"

\* The ways the resolver can end for the identifier of the pass, in the
\* account and for the manager as they are before the pass.
Resolutions(identifier) ==
    ResolveIdentifier(ec2, region[Operator], client[Operator], identifier,
                      FALSE)

TransitionPass ==
    \A op \in Transitions :
        Pass(op) =>
            \E r \in Resolutions(out'.identifier) :
                LET n == Len(r.queries)
                IN  /\ Len(out'.calls) >= n
                    /\ SubSeq(out'.calls, 1, n)
                        = Lookups(out'.identifier, r.queries)
                    /\ (r.raised \/ r.ret = None) =>
                            Len(out'.calls) = n
                    /\ (~r.raised /\ r.ret # None) =>
                        /\ Len(out'.calls) = n + 1
                        /\ out'.calls[n + 1].api = MainCall(op)
                        /\ out'.calls[n + 1].target = r.ret
                        /\ out'.calls[n + 1].region = r.client
                        /\ out'.raised
                            <=> out'.calls[n + 1].outcome = "ConnError"
                        /\ out'.ret = "True"
                            <=> out'.calls[n + 1].outcome = "ok"
                        /\ out'.ret = "False"
                            <=> out'.calls[n + 1].outcome = "ClientError"
                        /\ out'.retry
                            <=> (out'.raised /\ out'.attempt < MaxRetries)

\* C27: stop_instance and start_instance check no state.  In every pass of
\* the body the calls are those of the resolver and, exactly when the
\* resolver gave an id, one transition request for that id through the
\* client the resolver left, whatever the state of the instance.  The pass
\* returns True when the request was accepted and False when the provider
\* refused it; a connectivity error of the request leaves the body, and the
\* wrapper runs the body again while attempts remain.
C27_OnceEachPassWhateverState == [][TransitionPass]_vars

\* A stop request issued for a pending instance, which the provider refuses.
C27_Witness ==
    /\ out.op = "stop"
    /\ Transition(out)
    /\ LastCall.outcome = "ClientError"
    /\ out.ret = "False"
    /\ \E i \in ec2 :
        /\ i.id = LastCall.target
        /\ i.region = LastCall.region
        /\ i.state = "pending"

-----------------------------------------------------------------------------
(* Properties of the retry wrapper for connectivity failures and of its
   sleeps, stated on the record of a finished call *)

Connectivity(e) == e.kind \in ConnectivityErrors

\* C28: a NoCredentialsError, EndpointConnectionError or ConnectTimeoutError
\* of invocation k is followed by a sleep and another invocation whenever
\* k <= max_retries, as a retryable provider error is; it is propagated
\* exactly when it is the failure of invocation max_retries + 1.
C28_ConnectivityRetriedToBudget ==
    Wrapped =>
        /\ \A k \in DOMAIN out.invoked :
            LET e == out.invoked[k]
            IN  /\ (Connectivity(e) /\ k <= out.max_retries) =>
                        /\ Len(out.invoked) >= k + 1
                        /\ Len(out.slept) >= k
                /\ (Connectivity(e) /\ k = out.max_retries + 1) =>
                        /\ Len(out.invoked) = k
                        /\ Propagated(k)
        /\ out.raised \in ConnectivityErrors =>
                Len(out.invoked) = out.max_retries + 1

\* Every one of the three classes, retried, the last one propagated at the
\* end of a budget of 2.
C28_Witness ==
    /\ Wrapped
    /\ out.max_retries = 2
    /\ out.invoked = <<[kind |-> "NoCredentialsError", code |-> None],
                       [kind |-> "EndpointConnectionError", code |-> None],
                       [kind |-> "ConnectTimeoutError", code |-> None]>>
    /\ Len(out.slept) = 2
    /\ out.raised = "ConnectTimeoutError"

\* C29: the j-th sleep of a call, the one between invocation j (attempt
\* j - 1) and invocation j + 1, lasts delay * 2^(j - 1), whether invocation j
\* failed with a retryable provider error or with a connectivity failure;
\* every sleep is followed by an invocation, so that none follows the last
\* one.
C29_BackoffDoubles ==
    Wrapped =>
        /\ Len(out.slept) = Len(out.invoked) - 1
        /\ \A j \in DOMAIN out.slept :
            /\ out.slept[j] = out.delay * (2 ^ (j - 1))
            /\ \/ Connectivity(out.invoked[j])
               \/ /\ ProviderError(out.invoked[j])
                  /\ out.invoked[j].code \in RETRYABLE_ERRORS

\* Sleeps of 2, 4 and 8 seconds after a provider error, a connectivity
\* failure and a provider error; the fourth invocation returns.
C29_Witness ==
    /\ Wrapped
    /\ out.delay = 2
    /\ out.invoked = <<[kind |-> "ClientError", code |-> "Throttling"],
                       [kind |-> "ConnectTimeoutError", code |-> None],
                       [kind |-> "ClientError", code |-> "SlowDown"],
                       Returned>>
    /\ out.slept = <<2, 4, 8>>

-----------------------------------------------------------------------------
(* Properties of the spot options of the launch request *)

HibernationRequested ==
    /\ "hibernation_enabled" \in DOMAIN out.profile
    /\ out.profile["hibernation_enabled"]

\* C30: a launch request built for a profile with spot_instance set carries
\* spot market options whose InstanceInterruptionBehavior is hibernate and
\* whose SpotInstanceType is persistent when the profile has
\* hibernation_enabled set, and terminate and one-time when it has not; a
\* request built for a profile without spot_instance carries no
\* InstanceMarketOptions.
C30_SpotOptionsFollowHibernation ==
    RequestBuilt =>
        /\ SpotRequested =>
            /\ CarriesSpotOptions
            /\ LET o == out.request["InstanceMarketOptions"].SpotOptions
               IN  IF HibernationRequested
                   THEN /\ o.InstanceInterruptionBehavior = "hibernate"
                        /\ o.SpotInstanceType = "persistent"
                   ELSE /\ o.InstanceInterruptionBehavior = "terminate"
                        /\ o.SpotInstanceType = "one-time"
        /\ ~SpotRequested =>
            "InstanceMarketOptions" \notin DOMAIN out.request

\* A spot request with hibernation: hibernate and persistent.
C30_Witness ==
    /\ RequestBuilt
    /\ SpotRequested
    /\ HibernationRequested
    /\ out.request["InstanceMarketOptions"].SpotOptions.SpotInstanceType
            = "persistent"
    /\ out.request["InstanceMarketOptions"].SpotOptions.InstanceInterruptionBehavior
            = "hibernate"
    /\ out.spot_price = BidList[2]

-----------------------------------------------------------------------------
(* The labels of a launched instance and the default listing *)

\* The instances of the account that create_instance launched.
LaunchedHere == ec2 \ {Foreign}

\* A default call of list_instances (no argument given) that the provider
\* answered.
DefaultListing ==
    /\ out.op = "list_instances"
    /\ out.app_class = None /\ out.state = None /\ out.profile_name = None
    /\ ~out.all_instances
    /\ out.outcome = "ok"

Listed(id) == \E k \in DOMAIN out.ret : out.ret[k].InstanceId = id

\* C31: every instance launched by create_instance has the tags
\* CreatedBy=spotman, Name = the name asked for and Profile = the profile
\* name of the call, whatever tags the profile has of its own, and every
\* default list_instances call that the provider answers through the client
\* of its region returns it.
C31_LaunchedIsLabelledAndListed ==
    /\ \A i \in LaunchedHere :
        /\ InstanceTags(i)["CreatedBy"] = "spotman"
        /\ InstanceTags(i)["Name"] = i.name
    /\ (out.op = "create_instance" /\ out.ret # None) =>
        \E i \in LaunchedHere :
            /\ i.id = out.ret
            /\ InstanceTags(i)["CreatedBy"] = "spotman"
            /\ InstanceTags(i)["Name"] = out.instance_name
            /\ InstanceTags(i)["Profile"] = out.profile_name
    /\ DefaultListing =>
        \A i \in LaunchedHere : i.region = client[out.m] => Listed(i.id)

\* A default listing that returns an instance launched from a profile whose
\* own tags name another creator, beside an instance of another tool that it
\* leaves out.
C31_Witness ==
    /\ DefaultListing
    /\ Foreign \in ec2
    /\ ~Listed(Foreign.id)
    /\ \E i \in LaunchedHere :
        /\ Listed(i.id)
        /\ "Team" \in DOMAIN InstanceTags(i)
        /\ InstanceTags(i)["Profile"] = "batch"

-----------------------------------------------------------------------------
(* The include line of the main login configuration *)

\* The lines of the main file in which the include line is found.
Directives(fs) ==
    IF fs.main.exists
    THEN {k \in DOMAIN fs.main.lines : Contains(fs.main.lines[k], IncludeLine)}
    ELSE {}

SetupIdempotent ==
    /\ Cardinality(Directives(files')) <= 1
    /\ Pass("ensure_setup") =>
        /\ out'.ret => Cardinality(Directives(files')) = 1
        /\ Directives(files) # {} =>
            /\ files'.main = files.main
            /\ ~out'.raised => out'.ret

-----------------------------------------------------------------------------
(* create_instance: the wait before the registration *)

\* The waits of a call log that reported the instance running.
RunningWaits(calls) ==
    {k \in CallsOf(calls, "wait_instance_running") :
        calls[k].outcome = "running"}

RegisteredAfterRunning ==
    Pass("create_instance") =>
        /\ \A k \in CallsOf(out'.calls, "describe_instances") :
            \E j \in RunningWaits(out'.calls) :
                j < k /\ out'.calls[j].target = out'.calls[k].target
        /\ files' # files => RunningWaits(out'.calls) # {}
        /\ RunningWaits(out'.calls) = {} =>
            /\ files' = files
            /\ CallsOf(out'.calls, "describe_instances") = {}

\* C32: in every pass of create_instance the registrar's describe call
\* comes after a wait that reported the same instance running, and a pass
\* whose wait exceeded its bound or failed (or that never came to the wait)
\* makes no registrar call and leaves the main login configuration and the
\* managed record file as they were.
C32_RegistrationOnlyAfterRunning == [][RegisteredAfterRunning]_vars

\* A create whose waiter failed, with records of earlier creates in the
\* store: the id is returned and the registrar was not called.
C32_Witness ==
    /\ Created
    /\ out.ret # None
    /\ \E k \in CallsOf(out.calls, "wait_instance_running") :
            out.calls[k].outcome = "failed"
    /\ CallsOf(out.calls, "describe_instances") = {}
    /\ files.managed.exists
    /\ \E k \in DOMAIN files.managed.lines :
            StartsWith(files.managed.lines[k], "Host ")

-----------------------------------------------------------------------------
(* The region of the calls after the resolver has changed region *)

\* The calls of a log other than the resolver's and the name check's
\* lookups by name.
RequestsOf(calls) ==
    {k \in DOMAIN calls : calls[k].api # "describe_instances_by_name"}

SentToFoundRegion ==
    /\ region'[Operator] = client'[Operator]
    /\ \A op \in LifecycleOps :
        Pass(op) =>
            /\ \A k \in RequestsOf(out'.calls) :
                    out'.calls[k].region = region'[Operator]
            /\ region'[Operator] # region[Operator] =>
                \E i \in ec2 :
                    /\ i.region = region'[Operator]
                    /\ i.name = out'.identifier
                    /\ \A k \in RequestsOf(out'.calls) :
                            out'.calls[k].target = i.id
    /\ Pass("create") =>
        /\ region' = region
        /\ \A k \in DOMAIN out'.calls :
                out'.calls[k].region = region[Operator]

\* C34: a lifecycle operation whose resolve changes the manager's region
\* has found an instance of that name in the new region, and sends every
\* describe, cancel and transition request of the same pass to that region,
\* for that instance; the manager's client is always that of its region,
\* so every request of every later operation, and the name check, launch,
\* wait and registrar calls of a later create_instance, go to the region
\* the manager was left in.
C34_RequestsFollowFoundRegion == [][SentToFoundRegion]_vars

\* A create that checked the name and launched in the region that an
\* earlier operation's resolve had moved the manager to.
C34_Witness ==
    /\ out.op = "create"
    /\ region[Operator] = RegionDirectory[3]
    /\ \E k \in CallsOf(out.calls, "run_instances") :
        /\ out.calls[k].outcome = "ok"
        /\ out.calls[k].region = RegionDirectory[3]
    /\ \E k \in CallsOf(out.calls, "describe_instances_by_name") :
            out.calls[k].region = RegionDirectory[3]
    /\ \E i \in ec2 : i.id = out.ret /\ i.region = RegionDirectory[3]

-----------------------------------------------------------------------------
(* create_instance when the duplicate-name lookup fails *)

LookupFailedOpen ==
    (Pass("create_instance") /\ out'.calls[1].outcome = "ClientError") =>
        /\ out'.calls[1].api = "describe_instances_by_name"
        /\ ~out'.name_exists
        /\ ~out'.raised
        /\ (out'.request # EmptyMap /\ ~out'.dry_run) =>
            /\ Count(out'.calls, "run_instances") = 1
            /\ RunReturned(out') =>
                \E i \in ec2' \ ec2 :
                    /\ i.name = out'.instance_name
                    /\ i.region = client[Operator]
                    /\ out'.ret = i.id

-----------------------------------------------------------------------------
(* Lifecycle operations when the resolver gives no identity *)

NoIdentityNoCall ==
    \A op \in LifecycleOps :
        Pass(op) =>
            \E r \in Resolutions(out'.identifier) :
                LET n == Len(r.queries)
                IN  /\ Len(out'.calls) >= n
                    /\ SubSeq(out'.calls, 1, n)
                        = Lookups(out'.identifier, r.queries)
                    /\ region'[Operator] = r.region
                    /\ r.raised => (Len(out'.calls) = n /\ out'.raised)
                    /\ (~r.raised /\ r.ret = None) =>
                        /\ Len(out'.calls) = n
                        /\ out'.ret = "False"
                        /\ ~out'.raised
                        /\ ec2' = ec2
                    /\ (~r.raised /\ r.ret # None) =>
                        /\ Len(out'.calls) > n
                        /\ out'.calls[n + 1].target = r.ret

\* C36: every pass of stop, start, terminate, hibernate and resume is that
\* of one way the resolver can end in the account before the pass: when the
\* resolver returns no identity (the name is not found, or several
\* instances hold it) the pass makes the resolver's lookups by name and no
\* other call, returns False, raises nothing and leaves the account as it
\* was; only when the resolver returns an id does a call follow, for that
\* id.
C36_NoIdentityNoRequest == [][NoIdentityNoCall]_vars

\* terminate by a name that two live instances of the home region hold:
\* one lookup, no other call, False.
C36_Witness ==
    /\ out.op = "terminate"
    /\ out.ret = "False"
    /\ Len(out.calls) = 1
    /\ out.calls[1].api = "describe_instances_by_name"
    /\ Cardinality(Holders(region[Operator], out.identifier)) = 2

-----------------------------------------------------------------------------
(* The manager's region when the resolver reports several candidates *)

\* The last call reported the candidates of a region other than its home.
AmbiguousElsewhere ==
    /\ Resolved
    /\ \E t \in out.reported : t[3] # out.home

\* C37: a resolve that reports several candidates in a region other than
\* the home region returns no identity and leaves the manager's region and
\* client handle as they were; the region and the client change only in a
\* call that returns the id of the single instance that holds the name in
\* the region they change to.
C37_AmbiguityKeepsRegion ==
    /\ AmbiguousElsewhere => (out.ret = None /\ Unmoved)
    /\ (Resolved /\ ~Unmoved) =>
        /\ region[Resolver] = client[Resolver]
        /\ \E i \in Held(region[Resolver]) :
            /\ Held(region[Resolver]) = {i}
            /\ out.ret = i.id

\* Two instances of one name in the region searched last, none elsewhere:
\* both reported, the manager still in its home region.
C37_Witness ==
    /\ AmbiguousElsewhere
    /\ Unmoved
    /\ Len(out.queries) = Len(RegionDirectory)
    /\ Cardinality(out.reported) = 2

-----------------------------------------------------------------------------
(* Terminated instances and the resolver *)

\* The instances of region r that carry the name the last call asked for,
\* live and terminated.
LiveNamed(r) == Holders(r, out.identifier)

TerminatedNamed(r) ==
    {i \in ec2 : /\ i.region = r
                 /\ i.name = out.identifier
                 /\ i.state = "terminated"}

\* One live and one or more terminated instances hold the name in region r.
OneLiveSomeTerminated(r) ==
    Cardinality(LiveNamed(r)) = 1 /\ TerminatedNamed(r) # {}

\* The outcome the claim gives for region r.
TerminatedRule(r) ==
    /\ ~out.include_terminated =>
        /\ ~out.raised
        /\ \E i \in LiveNamed(r) : out.ret = i.id
    /\ out.include_terminated =>
        /\ ~out.raised
        /\ out.ret = None
        /\ out.reported =
            {<<i.id, i.state, r>> : i \in LiveNamed(r) \cup TerminatedNamed(r)}

\* C38 as claimed: when the first region of the search order that holds the
\* name (for the call's state filter) holds it with one live and one or
\* more terminated instances, resolve returns the live instance without
\* include_terminated and reports ambiguity with it.
C38_AsClaimed ==
    (Resolved /\ ~NativeId(out.identifier)) =>
        \A k \in DOMAIN SearchOrder :
            (FirstHolder(k) /\ OneLiveSomeTerminated(SearchOrder[k])) =>
                TerminatedRule(SearchOrder[k])

\* C38 amended: when the first lookup, in search order, that returns any
\* match (a failed lookup returns none) is that of a region where one live
\* and one or more terminated instances hold the name, resolve returns the
\* live instance without include_terminated, and with include_terminated
\* it returns no identity and reports all of them as candidates.
C38_TerminatedSeenOnlyWhenAsked ==
    (Resolved /\ ~NativeId(out.identifier)) =>
        \A k \in DOMAIN out.queries :
            (FirstHit(k) /\ OneLiveSomeTerminated(out.queries[k].region)) =>
                TerminatedRule(out.queries[k].region)

\* A name with a running and a terminated holder in the home region,
\* resolved with include_terminated: both are reported, no identity.
C38_Witness ==
    /\ Resolved
    /\ out.include_terminated
    /\ FirstHit(1)
    /\ OneLiveSomeTerminated(out.home)
    /\ out.ret = None
    /\ Cardinality(out.reported) = 2

-----------------------------------------------------------------------------
(* The records of the other aliases when one alias is registered *)

\* The Host records of an alias in a text, each with its fields.
BlocksOf(lines, host_name) ==
    {<<lines[k]>> \o FieldsAt(lines, k) : k \in HostLinesOf(lines, host_name)}

\* The managed-by comment lines of an alias in a text.
CommentsOf(lines, host_name) ==
    {lines[k] : k \in CommentLinesOf(lines, host_name)}

\* C39: a successful call of the registrar for one alias leaves, for every
\* other alias, the Host records and the managed-by comment lines that the
\* managed file held before the call.
C39_OtherRecordsUntouched ==
    (Registered /\ out.before.managed.exists) =>
        \A other \in HostNames \ {out.host_name} :
            /\ BlocksOf(files.managed.lines, other)
                = BlocksOf(out.before.managed.lines, other)
            /\ CommentsOf(files.managed.lines, other)
                = CommentsOf(out.before.managed.lines, other)

====
